---- MODULE Spec2Model ----
(***************************************************************************)
(* Model of the metabench core: the modification ledger (Modifs), the      *)
(* Objective wrapper, the Solution copy, the move functions and the        *)
(* neighborhood generators.                                                *)
(*                                                                         *)
(* Python's None is the empty tuple <<>> and a present value v is <<v>>,   *)
(* so an absent ledger (None) and an empty ledger (<<Modifs()>>) differ.   *)
(* A Modifs is an OrderedDict: a sequence of entries in insertion order,   *)
(* one entry per index.  Real attributes live on an integer grid.          *)
(***************************************************************************)
EXTENDS Integers, Sequences, FiniteSets, Bags, TLC

\* ---------------------------------------------------------------- bounds
MaxLen == 3          \* longest binary solution
MaxPermLen == 4      \* longest permutation solution
MaxItem == 3         \* permutation items are drawn from 0..MaxItem
MaxDiscLen == 2      \* longest discrete solution
MaxRealLen == 2      \* longest real solution
MaxVal == 1          \* largest bound of a discrete or real attribute
MaxLedgerVal == 2    \* caller-made add_modif calls use values 0..MaxLedgerVal
MaxStep == 2         \* largest integer step handed to a move
MaxCalls == 3        \* longest sequence of caller-made add_modif calls
MaxIndex == 1        \* caller-made add_modif calls use indexes 0..MaxIndex
MaxNeighbors == 2    \* largest cap max_nb_neighbors
StepDen == 4         \* normalized steps are 0/StepDen .. StepDen/StepDen
MaxRadius == 1       \* continuous ranges reach up to StepDen * MaxRadius
MaxWrites == 1       \* attribute writes made on the objects of the heap
MaxBoundLen == 2     \* longest minimums / maximums given to Boundaries
MaxExp == 1          \* logarithmic continuous ranges reach up to 10^MaxExp
MaxClimbLen == 2     \* longest solution of a problem given to HillClimbing
MaxFitness == 2      \* fitness values are 0..MaxFitness

\* ------------------------------------------------- constants of the tests
VALUE_NOT_RETURNED == 0
VALUE_RETURNED_FIT == 1
VALUE_RETURNED_FIT_PART == 2

\* ---------------------------------------------------------------- helpers
None == <<>>

Some(v) == <<v>>

Range(s) == {s[i] : i \in DOMAIN s}

Min2(a, b) == IF a < b THEN a ELSE b

Max2(a, b) == IF a < b THEN b ELSE a

\* All sequences of length n over the set S.
SeqsOfLen(S, n) == [1..n -> S]

\* All sequences of length 1..n over the set S.
SeqsUpTo(S, n) == UNION {SeqsOfLen(S, m) : m \in 1..n}

\* Number of positions at which two equally long vectors differ
\* (norm of order 0 of the difference).
Hamming(a, b) == Cardinality({i \in DOMAIN a : a[i] # b[i]})

\* ----------------------------------------------------------------- Modifs
\* Position of the entry of `index` in the ledger, 0 when there is none.
Pos(m, index) ==
    IF \E p \in DOMAIN m : m[p].index = index
    THEN CHOOSE p \in DOMAIN m : m[p].index = index
    ELSE 0

\* Modifs.get(index, None)
Get(m, index) ==
    IF Pos(m, index) = 0 THEN None
    ELSE Some(<<m[Pos(m, index)].val_before, m[Pos(m, index)].val_after>>)

Keys(m) == {m[p].index : p \in DOMAIN m}

add_modif_overwrite(m, index, val_before, val_after) ==
    IF Pos(m, index) # 0
    THEN [m EXCEPT ![Pos(m, index)] =
              [index |-> index, val_before |-> val_before, val_after |-> val_after]]
    ELSE Append(m, [index |-> index, val_before |-> val_before, val_after |-> val_after])

\* Modifs.add_modif: a seen index keeps its stored val_before (and its place
\* in the OrderedDict), an unseen index is appended.
add_modif(m, index, val_before, val_after) ==
    LET cur_val == Get(m, index) IN
    IF cur_val # None
    THEN [m EXCEPT ![Pos(m, index)] =
              [index |-> index, val_before |-> cur_val[1][1], val_after |-> val_after]]
    ELSE Append(m, [index |-> index, val_before |-> val_before, val_after |-> val_after])

\* The ledger left by a sequence of add_modif calls on a new Modifs().
RECURSIVE Apply(_)
Apply(cs) ==
    IF cs = <<>> THEN <<>>
    ELSE LET c == cs[Len(cs)] IN
         add_modif(Apply(SubSeq(cs, 1, Len(cs) - 1)), c[1], c[2], c[3])

\* --------------------------------------------------------------- Encoding
Boundaries(minimums, maximums) == [minimums |-> minimums, maximums |-> maximums]

BinaryEncoding(size) ==
    [name |-> "BinaryEncoding",
     boundaries |-> Some(Boundaries([i \in 1..size |-> 0], [i \in 1..size |-> 1])),
     items |-> <<>>]

DiscreteEncoding(b) == [name |-> "DiscreteEncoding", boundaries |-> Some(b), items |-> <<>>]

RealEncoding(b) == [name |-> "RealEncoding", boundaries |-> Some(b), items |-> <<>>]

PermutationEncoding(items) == [name |-> "PermutationEncoding", boundaries |-> None, items |-> items]

\* ------------------------------------------------ Boundaries (validated)
\* A number of the scale row: units + eps * epsilon, where epsilon is
\* np.finfo(np.float).resolution (1e-15, far below one unit).
Number(units, eps) == [units |-> units, eps |-> eps]

Positive(x) == x.units > 0 \/ (x.units = 0 /\ x.eps > 0)

\* np.array(rows, type) on one number: np.int truncates towards zero, which
\* drops the epsilon of a non-negative number; np.float keeps the number.
astype(x, type) == IF type = "int" THEN Number(x.units, 0) ELSE x

\* The loop of Boundaries.__new__ over range(len_minimums): the indexes i
\* with maximums[i] < minimums[i], in increasing order.
RECURSIVE err_indexes_from(_, _, _)
err_indexes_from(minimums, maximums, i) ==
    IF i >= Len(minimums) THEN <<>>
    ELSE (IF maximums[i + 1] < minimums[i + 1] THEN <<i>> ELSE <<>>)
         \o err_indexes_from(minimums, maximums, i + 1)

err_indexes_first_only(minimums, maximums) ==
    LET bad == {i \in 0..(Len(minimums) - 1) : maximums[i + 1] < minimums[i + 1]}
    IN  IF bad = {} THEN <<>> ELSE <<CHOOSE i \in bad : \A j \in bad : i <= j>>

err_indexes(minimums, maximums) == err_indexes_from(minimums, maximums, 0)

\* Boundaries.__new__(minimums, maximums, type): the two checks, then the
\* three rows, the third being (maximums - minimums) + epsilon, all cast to
\* `type`.
Boundaries_new(minimums, maximums, type) ==
    IF Len(minimums) # Len(maximums)
    THEN [error |-> "ValueError", err_indexes |-> <<>>, bounds |-> None]
    ELSE IF err_indexes(minimums, maximums) # <<>>
    THEN [error |-> "ValueError", err_indexes |-> err_indexes(minimums, maximums),
          bounds |-> None]
    ELSE [error |-> "", err_indexes |-> <<>>,
          bounds |-> Some([minimums |-> minimums,
                           maximums |-> maximums,
                           scale |-> [i \in DOMAIN minimums |->
                                        astype(Number(maximums[i] - minimums[i], 1), type)]])]

\* Boundaries.normalize(array): array / self[2], index by index; numpy
\* divides by a zero of the scale row without raising.
normalize(self, array) ==
    [i \in DOMAIN array |->
        [num |-> array[i], den |-> self.scale[i],
         zero_division |-> ~Positive(self.scale[i])]]

\* ------------------------------------------- Encoding (size and distance)
\* The abstract Encoding(): no boundaries, no norm order.
AbstractEncoding == [name |-> "Encoding", boundaries |-> None, items |-> <<>>]

ord_zero_by_default(encoding) ==
    CASE encoding.name = "DiscreteEncoding" -> Some(1)
      [] encoding.name = "RealEncoding" -> Some(2)
      [] OTHER -> Some(0)

\* self.ord as the constructors set it: 0 for Binary, 1 for Discrete, 2 for
\* Real, None for Permutation and for the abstract class.
ord(encoding) ==
    CASE encoding.name = "BinaryEncoding" -> Some(0)
      [] encoding.name = "DiscreteEncoding" -> Some(1)
      [] encoding.name = "RealEncoding" -> Some(2)
      [] OTHER -> None

\* The dtype the constructor of an encoding leaves its boundaries with.
dtype(encoding) == IF encoding.name = "RealEncoding" THEN "float" ELSE "int"

\* self.boundaries[2] of an encoding: (maximums - minimums) + epsilon cast
\* to the dtype of the boundaries.
scale_row(encoding) ==
    LET b == encoding.boundaries[1]
    IN  [i \in DOMAIN b.minimums |->
            astype(Number(b.maximums[i] - b.minimums[i], 1), dtype(encoding))]

\* math.factorial
RECURSIVE factorial(_)
factorial(n) == IF n = 0 THEN 1 ELSE n * factorial(n - 1)

\* reduce(lambda x, y: x*y, row + 1) over the first n entries of an integer
\* row.
RECURSIVE reduce_product(_, _)
reduce_product(row, n) ==
    IF n = 1 THEN row[1].units + 1
    ELSE reduce_product(row, n - 1) * (row[n].units + 1)

\* space_size() of the four encodings and of the abstract class, which
\* RealEncoding inherits.
space_size(encoding) ==
    CASE encoding.name = "BinaryEncoding" ->
             [error |-> "", value |-> Some(2 ^ Len(encoding.boundaries[1].minimums))]
      [] encoding.name = "DiscreteEncoding" ->
             [error |-> "",
              value |-> Some(reduce_product(scale_row(encoding),
                                            Len(encoding.boundaries[1].minimums)))]
      [] encoding.name = "PermutationEncoding" ->
             [error |-> "", value |-> Some(factorial(Len(encoding.items)))]
      [] OTHER -> [error |-> "NotImplementedError", value |-> None]

\* An encoding object: its content and the identity `!=` compares (Encoding
\* defines no __eq__).
EncodingObject(id, encoding) ==
    [id |-> id, name |-> encoding.name, boundaries |-> encoding.boundaries,
     items |-> encoding.items]

\* bool(self.boundaries) in `if self.boundaries:`: None is false; an array
\* of 3 rows and n columns has no truth value once it holds more than one
\* element (ValueError), and is false when empty.
truth_value(boundaries) ==
    IF boundaries = None THEN [error |-> "", value |-> FALSE]
    ELSE IF 3 * Len(boundaries[1].minimums) = 0 THEN [error |-> "", value |-> FALSE]
    ELSE [error |-> "ValueError", value |-> FALSE]

\* Encoding.distance(solution_1, solution_2): the order test, the identity
\* test, the difference, its normalization when the boundaries are true,
\* the norm.  The norm is kept as its order and the terms num/den it is
\* taken of.
distance(self, solution_1, solution_2) ==
    IF ord(self) = None THEN [error |-> "NotImplementedError", value |-> None]
    ELSE IF solution_1.encoding.id # self.id \/ solution_2.encoding.id # self.id
    THEN [error |-> "ValueError", value |-> None]
    ELSE LET diff == [i \in DOMAIN solution_1.vals |-> solution_1.vals[i] - solution_2.vals[i]]
             t == truth_value(self.boundaries)
         IN  IF t.error # "" THEN [error |-> t.error, value |-> None]
             ELSE IF t.value
             THEN [error |-> "",
                   value |-> Some([ord |-> ord(self)[1],
                                   terms |-> normalize([scale |-> scale_row(self)], diff)])]
             ELSE [error |-> "",
                   value |-> Some([ord |-> ord(self)[1],
                                   terms |-> [i \in DOMAIN diff |->
                                                [num |-> diff[i], den |-> Number(1, 0),
                                                 zero_division |-> FALSE]]])]

shuffle_with_replacement(items) == [DOMAIN items -> Range(items)]

\* np.random.shuffle on a copy of the items: the items in any order.
shuffle(items) ==
    {[i \in DOMAIN items |-> items[sigma[i]]] :
        sigma \in {f \in [DOMAIN items -> DOMAIN items] :
                      \A i, j \in DOMAIN items : i # j => f[i] # f[j]}}

\* The arrays generate_random_value() may return: np.random.randint(2, size),
\* np.random.random_integers(min_i, max_i) at each index (both included),
\* np.random.uniform(min_i, max_i) at each index (on the grid of the model,
\* the upper bound included as rounding may return it), a shuffled copy of
\* the items.
generate_random_value(encoding) ==
    CASE encoding.name = "BinaryEncoding" ->
             [DOMAIN encoding.boundaries[1].minimums -> {0, 1}]
      [] encoding.name \in {"DiscreteEncoding", "RealEncoding"} ->
             LET b == encoding.boundaries[1]
             IN  {v \in [DOMAIN b.minimums -> 0..MaxVal] :
                     \A i \in DOMAIN v : b.minimums[i] <= v[i] /\ v[i] <= b.maximums[i]}
      [] encoding.name = "PermutationEncoding" -> shuffle(encoding.items)

\* ----------------------------------------------------------- constructors
BinaryEncoding_init_allow_zero(size) ==
    IF size < 0 THEN [error |-> "ValueError", value |-> None]
    ELSE [error |-> "", value |-> Some(BinaryEncoding(size))]

\* BinaryEncoding.__init__(size)
BinaryEncoding_init(size) ==
    IF size <= 0 THEN [error |-> "ValueError", value |-> None]
    ELSE [error |-> "", value |-> Some(BinaryEncoding(size))]

\* DiscreteEncoding.__init__(boundaries), the boundaries being an array of
\* dtype `type`.
DiscreteEncoding_init(boundaries, type) ==
    IF ~(type = "int") THEN [error |-> "TypeError", value |-> None]
    ELSE [error |-> "", value |-> Some(DiscreteEncoding(boundaries))]

\* RealEncoding.__init__(boundaries), the boundaries being an array of
\* dtype `type`.
RealEncoding_init(boundaries, type) ==
    IF ~(type = "float") THEN [error |-> "TypeError", value |-> None]
    ELSE [error |-> "", value |-> Some(RealEncoding(boundaries))]

\* ContinuousMoveRange.__init__(low, high), inherited by the logarithmic
\* class; a bound is a number and the Python type that holds it.  The order
\* test comes before the type tests.
ContinuousMoveRange_init(kind, low, high) ==
    IF high.num < low.num THEN [error |-> "ValueError", value |-> None]
    ELSE IF low.type # "float" THEN [error |-> "TypeError", value |-> None]
    ELSE IF high.type # "float" THEN [error |-> "TypeError", value |-> None]
    ELSE [error |-> "", value |-> Some([kind |-> kind, low |-> low.num, high |-> high.num])]

\* DiscreteMoveRange.__init__(low, high), inherited by the logarithmic
\* class.
DiscreteMoveRange_init(kind, low, high) ==
    IF high.num < low.num THEN [error |-> "ValueError", value |-> None]
    ELSE IF low.type # "int" THEN [error |-> "TypeError", value |-> None]
    ELSE IF high.type # "int" THEN [error |-> "TypeError", value |-> None]
    ELSE [error |-> "", value |-> Some([kind |-> kind, low |-> low.num, high |-> high.num])]

\* --------------------------------------------------------------- Solution
Solution(input_array, encoding, fitness) ==
    [vals |-> input_array, encoding |-> encoding, fitness |-> fitness]

\* Solution.copy
copy(self, copy_fitness) ==
    IF copy_fitness
    THEN Solution(self.vals, self.encoding, self.fitness)
    ELSE Solution(self.vals, self.encoding, None)

\* Solution.min_val / Solution.max_val; indexes are 0-based as in the source.
min_val(self, index) == self.encoding.boundaries[1].minimums[index + 1]

max_val(self, index) == self.encoding.boundaries[1].maximums[index + 1]

\* Solution.max_vals / Solution.min_vals: None when the encoding has no
\* boundaries.
max_vals(self) ==
    IF self.encoding.boundaries = None THEN None
    ELSE Some(self.encoding.boundaries[1].maximums)

min_vals(self) ==
    IF self.encoding.boundaries = None THEN None
    ELSE Some(self.encoding.boundaries[1].minimums)

to_bounds_upper_only(self) ==
    LET b == self.encoding.boundaries[1]
    IN  [self EXCEPT !.vals = [i \in DOMAIN self.vals |-> Min2(b.maximums[i], self.vals[i])]]

\* Solution.to_bounds on a bounded encoding: minimum with the maximums, then
\* maximum with the minimums.
to_bounds(self) ==
    LET b == self.encoding.boundaries[1]
        low == [i \in DOMAIN self.vals |-> Min2(b.maximums[i], self.vals[i])]
    IN  [self EXCEPT !.vals = [i \in DOMAIN self.vals |-> Max2(b.minimums[i], low[i])]]

\* A call of Solution.to_bounds on any solution: with no boundaries
\* max_vals() is None and np.minimum(None, self) compares None with the
\* attributes, which raises TypeError before anything is written.
Solution_to_bounds(self) ==
    IF max_vals(self) = None
    THEN [error |-> "TypeError", solution |-> self]
    ELSE [error |-> "", solution |-> to_bounds(self)]

\* ------------------------------------------------- Solution objects (heap)
\* A heap holds array buffers and Solution objects; an object is a view of
\* one buffer with its encoding and its fitness, so that two objects on the
\* same buffer see each other's writes.
\* np.ndarray.copy(): a new buffer with the values of `buf`.
ndarray_copy(h, buf) == [h EXCEPT !.buffers = Append(@, h.buffers[buf])]

\* Solution.__new__(cls, input_array, encoding, fitness): a new object that
\* views the buffer of input_array.
Solution_new(h, buf, encoding, fitness) ==
    [h EXCEPT !.objects = Append(@, [buf |-> buf, encoding |-> encoding,
                                      fitness |-> fitness])]

Solution_copy_view(h, self, copy_fitness) ==
    Solution_new(h, h.objects[self].buf, h.objects[self].encoding,
                 IF copy_fitness THEN h.objects[self].fitness ELSE None)

\* Solution.copy on the heap: super().copy() makes the buffer, Solution(...)
\* the object on it, with the fitness only when copy_fitness.
Solution_copy(h, self, copy_fitness) ==
    LET h1 == ndarray_copy(h, h.objects[self].buf) IN
    Solution_new(h1, Len(h1.buffers), h.objects[self].encoding,
                 IF copy_fitness THEN h.objects[self].fitness ELSE None)

\* obj[index] = value on the heap: the write goes to the buffer obj views.
heap_setitem(h, obj, index, value) ==
    [h EXCEPT !.buffers[h.objects[obj].buf][index + 1] = value]

\* The solution an object of the heap stands for.
Deref(h, obj) ==
    Solution(h.buffers[h.objects[obj].buf], h.objects[obj].encoding, h.objects[obj].fitness)

\* The item assignments of a move on the object obj, which leave it with the
\* first n values of vals.
RECURSIVE heap_write(_, _, _, _)
heap_write(h, obj, vals, n) ==
    IF n = 0 THEN h
    ELSE heap_setitem(heap_write(h, obj, vals, n - 1), obj, n - 1, vals[n])

heap_move_in_place(h, self, copy_fitness, vals) ==
    Solution_copy(heap_write(h, self, vals, Len(vals)), self, copy_fitness)

\* The body every move shares, on the heap: neighbor = solution.copy(...),
\* then every write of the move (neighbor[index] = value, neighbor += vector,
\* neighbor.to_bounds()) goes through `neighbor`, the object just made.
heap_move(h, self, copy_fitness, vals) ==
    LET h1 == Solution_copy(h, self, copy_fitness)
    IN  heap_write(h1, Len(h1.objects), vals, Len(vals))

\* The heap once the caller lets go of the object obj: the object goes, and
\* its buffer with it when no other object views it.
heap_release(h, obj) ==
    LET b == h.objects[obj].buf
        others == {h.objects[k].buf : k \in DOMAIN h.objects \ {obj}}
        Without(seq, i) == [k \in 1..(Len(seq) - 1) |-> IF k < i THEN seq[k] ELSE seq[k + 1]]
        objects == Without(h.objects, obj)
    IN  IF b \in others
        THEN [h EXCEPT !.objects = objects, !.expected = Without(h.expected, obj)]
        ELSE [h EXCEPT !.buffers = Without(h.buffers, b),
                       !.objects = [k \in DOMAIN objects |->
                                       [objects[k] EXCEPT !.buf = IF @ > b THEN @ - 1 ELSE @]],
                       !.expected = Without(h.expected, obj)]

\* The caller holds its solution (object 1) and, under the name `neighbor`,
\* the last neighbor it got: binding the name anew releases the one before.
heap_rebind(h) ==
    IF Len(h.objects) > 1 THEN heap_release(h, 2) ELSE h

setitem_invalidate(self, index, value) ==
    [self EXCEPT !.vals[index + 1] = value, !.fitness = None]

\* self[index] = value: the __setitem__ of np.ndarray, which Solution does
\* not override; the cached fitness is not touched.
setitem(self, index, value) == [self EXCEPT !.vals[index + 1] = value]

\* -------------------------------------------------------------- Objective
\* bool(modifs): an absent or an empty ledger is falsy.
Truthy(modifs_arg) == modifs_arg # None /\ modifs_arg[1] # <<>>

compute_fitness_value_no_fitness_check(objective, solution, modifs_arg) ==
    IF Truthy(modifs_arg) /\ objective.fitness_partial
    THEN [evaluator |-> "fitness_partial", value |-> VALUE_RETURNED_FIT_PART]
    ELSE [evaluator |-> "fitness", value |-> VALUE_RETURNED_FIT]

\* Objective._compute_fitness_value
compute_fitness_value(objective, solution, modifs_arg) ==
    IF solution.fitness # None /\ Truthy(modifs_arg) /\ objective.fitness_partial
    THEN [evaluator |-> "fitness_partial", value |-> VALUE_RETURNED_FIT_PART]
    ELSE [evaluator |-> "fitness", value |-> VALUE_RETURNED_FIT]

Objective_call_only_unset(objective, solution, modifs_arg) ==
    IF solution.fitness = None
    THEN LET r == compute_fitness_value(objective, solution, modifs_arg) IN
         [evaluator |-> r.evaluator, fitness |-> Some(r.value)]
    ELSE [evaluator |-> "none", fitness |-> solution.fitness]

\* Objective.__call__: which evaluator ran and the fitness the solution has
\* afterwards.
Objective_call(objective, solution, modifs_arg) ==
    IF solution.fitness = None \/ modifs_arg # None
    THEN LET r == compute_fitness_value(objective, solution, modifs_arg) IN
         [evaluator |-> r.evaluator, fitness |-> Some(r.value)]
    ELSE [evaluator |-> "none", fitness |-> solution.fitness]

\* bool(solution.fitness): None and 0 are falsy.
fitness_truthy(solution) == solution.fitness # None /\ solution.fitness[1] # 0

\* Objective._compute_fitness_value of prob/objective.py: the cached
\* fitness is tested for truth, not for presence.
prob_compute_fitness_value(objective, solution, modifs_arg) ==
    IF fitness_truthy(solution) /\ Truthy(modifs_arg) /\ objective.fitness_partial
    THEN [evaluator |-> "fitness_partial", value |-> VALUE_RETURNED_FIT_PART]
    ELSE [evaluator |-> "fitness", value |-> VALUE_RETURNED_FIT]

\* Objective.__call__ of prob/objective.py
prob_Objective_call(objective, solution, modifs_arg) ==
    IF solution.fitness = None \/ modifs_arg # None
    THEN LET r == prob_compute_fitness_value(objective, solution, modifs_arg) IN
         [evaluator |-> r.evaluator, fitness |-> Some(r.value)]
    ELSE [evaluator |-> "none", fitness |-> solution.fitness]

\* ------------------------------------------------------------- decorators
lower_as_written(name) == name

\* str.lower on the spellings of class names a decorator is given or an
\* encoding has.
lower(name) ==
    CASE name \in {"BinaryEncoding", "binaryencoding", "BINARYENCODING"} -> "binaryencoding"
      [] name \in {"DiscreteEncoding", "discreteencoding", "DISCRETEENCODING"} -> "discreteencoding"
      [] name \in {"RealEncoding", "realencoding", "REALENCODING"} -> "realencoding"
      [] name \in {"PermutationEncoding", "permutationencoding", "PERMUTATIONENCODING"}
             -> "permutationencoding"
      [] name \in {"Encoding", "encoding", "ENCODING"} -> "encoding"

\* implemented_for: the move runs only on a solution whose encoding's class
\* name, in lower case, is the lower case of one of type_names.
implemented_for(type_names, solution) ==
    LET enc_type == lower(solution.encoding.name)
    IN  \E type_name \in type_names : lower(type_name) = enc_type

\* not_implemented_for: the function runs unless the lower-cased class name
\* is the lower case of one of type_names.
not_implemented_for(type_names, solution) ==
    LET enc_type == lower(solution.encoding.name)
    IN  ~\E type_name \in type_names : lower(type_name) = enc_type

\* The wrapper of either decorator around a function f that returns a copy
\* of its solution: NotImplementedError without a call of f, or f's result.
wrapper(decorator, type_names, solution) ==
    LET match == IF decorator = "implemented_for"
                 THEN implemented_for(type_names, solution)
                 ELSE not_implemented_for(type_names, solution)
    IN  IF ~match
        THEN [error |-> "NotImplementedError", called |-> FALSE, value |-> None]
        ELSE [error |-> "", called |-> TRUE, value |-> Some(copy(solution, TRUE))]

\* What a call of a move gives back: an exception, or a neighbor with the
\* add_modif calls the move made on its new Modifs().
Raise(e) == [error |-> e, neighbor |-> None, calls |-> <<>>]

Return(neighbor, calls) == [error |-> "", neighbor |-> Some(neighbor), calls |-> calls]

\* ---------------------------------------------------- move functions (atomic)
\* np.random.choice(n, size=size, replace=False): any `size` distinct indexes
\* of 0..n-1 in any order.
random_choice(n, size) ==
    {s \in [1..size -> 0..(n - 1)] : \A i, j \in 1..size : i # j => s[i] # s[j]}

RECURSIVE flip_loop_clear(_, _)
flip_loop_clear(neighbor, flip_indexes) ==
    IF flip_indexes = <<>> THEN [neighbor |-> neighbor, calls |-> <<>>]
    ELSE LET n == Len(flip_indexes)
             prev == flip_loop_clear(neighbor, SubSeq(flip_indexes, 1, n - 1))
             flip_index == flip_indexes[n]
         IN  [neighbor |-> setitem(prev.neighbor, flip_index, 0),
              calls |-> Append(prev.calls, <<flip_index, 1, 0>>)]

\* The loop of move_binary_flip over the chosen indexes: a truthy bit is
\* set to 0 and recorded as (1, 0), a falsy one set to 1 and recorded (0, 1).
RECURSIVE flip_loop(_, _)
flip_loop(neighbor, flip_indexes) ==
    IF flip_indexes = <<>> THEN [neighbor |-> neighbor, calls |-> <<>>]
    ELSE LET n == Len(flip_indexes)
             prev == flip_loop(neighbor, SubSeq(flip_indexes, 1, n - 1))
             flip_index == flip_indexes[n]
         IN  IF prev.neighbor.vals[flip_index + 1] # 0
             THEN [neighbor |-> setitem(prev.neighbor, flip_index, 0),
                   calls |-> Append(prev.calls, <<flip_index, 1, 0>>)]
             ELSE [neighbor |-> setitem(prev.neighbor, flip_index, 1),
                   calls |-> Append(prev.calls, <<flip_index, 0, 1>>)]

\* move_binary_flip(solution, step) of move_functions.py
move_binary_flip(solution, step) ==
    IF ~implemented_for({"BinaryEncoding"}, solution) THEN {Raise("NotImplementedError")}
    ELSE IF step > Len(solution.vals) THEN {Raise("ValueError")}
    ELSE {LET r == flip_loop(copy(solution, TRUE), flip_indexes)
          IN  Return(r.neighbor, r.calls) :
              flip_indexes \in random_choice(Len(solution.vals), step)}

RECURSIVE SumSq(_)
SumSq(v) == IF v = <<>> THEN 0
            ELSE v[Len(v)] * v[Len(v)] + SumSq(SubSeq(v, 1, Len(v) - 1))

\* The grid vectors of length n and norm `step`: the direction drawn by
\* np.random.normal, normalised and scaled by step.
Sphere(n, step) == {v \in [1..n -> (0 - step)..step] : SumSq(v) = step * step}

move_distance_continuous_recording(solution, step) ==
    IF ~implemented_for({"RealEncoding"}, solution) THEN {Raise("NotImplementedError")}
    ELSE {LET moved == [copy(solution, FALSE) EXCEPT
                           !.vals = [i \in DOMAIN solution.vals |-> solution.vals[i] + vector[i]]]
          IN  Return(to_bounds(moved),
                     [i \in DOMAIN solution.vals |->
                         <<i - 1, solution.vals[i], to_bounds(moved).vals[i]>>]) :
              vector \in Sphere(Len(solution.vals), step)}

\* move_distance_continuous(solution, step) of move_functions.py: the copy
\* has no fitness, the vector is added, the result clamped, the Modifs left
\* empty.
move_distance_continuous(solution, step) ==
    IF ~implemented_for({"RealEncoding"}, solution) THEN {Raise("NotImplementedError")}
    ELSE {LET moved == [copy(solution, FALSE) EXCEPT
                           !.vals = [i \in DOMAIN solution.vals |-> solution.vals[i] + vector[i]]]
          IN  Return(to_bounds(moved), <<>>) :
              vector \in Sphere(Len(solution.vals), step)}

\* move_substitution(solution, step) of move_functions.py never returns:
\* np.random.choice is handed a set (ValueError) and the ledger is built
\* under the undefined name `modif` (NameError when the loop is empty).
move_substitution(solution, step) ==
    IF ~implemented_for({"DiscreteEncoding"}, solution) THEN {Raise("NotImplementedError")}
    ELSE IF step > Len(solution.vals) THEN {Raise("ValueError")}
    ELSE IF step = 0 THEN {Raise("NameError")}
    ELSE {Raise("ValueError")}

random_choice_pairs_replace(n, step) ==
    {[p \in 1..step |-> <<s[2 * p - 1], s[2 * p]>>] : s \in [1..(2 * step) -> 0..(n - 1)]}

\* np.random.choice(n, size=(step, 2), replace=False): 2*step distinct
\* indexes laid out as `step` pairs.
random_choice_pairs(n, step) ==
    {[p \in 1..step |-> <<s[2 * p - 1], s[2 * p]>>] : s \in random_choice(n, 2 * step)}

\* The loop of move_swap: both values are read from the source solution.
RECURSIVE swap_loop(_, _, _)
swap_loop(solution, neighbor, swaps) ==
    IF swaps = <<>> THEN [neighbor |-> neighbor, calls |-> <<>>]
    ELSE LET n == Len(swaps)
             prev == swap_loop(solution, neighbor, SubSeq(swaps, 1, n - 1))
             index_1 == swaps[n][1]
             index_2 == swaps[n][2]
             n1 == setitem(prev.neighbor, index_1, solution.vals[index_2 + 1])
             n2 == setitem(n1, index_2, solution.vals[index_1 + 1])
         IN  [neighbor |-> n2,
              calls |-> prev.calls \o
                        << <<index_1, solution.vals[index_1 + 1], n2.vals[index_1 + 1]>>,
                           <<index_2, solution.vals[index_2 + 1], n2.vals[index_2 + 1]>> >>]

\* move_swap(solution, step) of move_functions.py
move_swap(solution, step) ==
    IF ~implemented_for({"PermutationEncoding"}, solution) THEN {Raise("NotImplementedError")}
    ELSE IF 2 * step > Len(solution.vals) THEN {Raise("ValueError")}
    ELSE {LET r == swap_loop(solution, copy(solution, TRUE), swaps)
          IN  Return(r.neighbor, r.calls) :
              swaps \in random_choice_pairs(Len(solution.vals), step)}

\* ------------------------------------- move functions (bounded enumeration)
combinations_with_replacement(n, r) ==
    {s \in [1..r -> 0..(n - 1)] : \A i, j \in 1..r : i < j => s[i] <= s[j]}

\* itertools.combinations(range(n), r): the ascending index tuples.
combinations(n, r) ==
    {s \in [1..r -> 0..(n - 1)] : \A i, j \in 1..r : i < j => s[i] < s[j]}

slice_length_one_more(candidates, nb_neighbors) ==
    Min2(nb_neighbors + 1, Cardinality(candidates))

\* len(all_flips[:nb_neighbors]): how many of the shuffled candidates the
\* loop of a bounded-enumeration move yields.
slice_length(candidates, nb_neighbors) == Min2(nb_neighbors, Cardinality(candidates))

\* all_flips of move_binary_flip(solution, step, nb_neighbors)
all_flips(solution, step) == combinations(Len(solution.vals), step)

allowed_values_keep_current(solution, i) == min_val(solution, i)..max_val(solution, i)

\* allowed_values of move_substitution: the range of index i without the
\* current value.
allowed_values(solution, i) ==
    (min_val(solution, i)..max_val(solution, i)) \ {solution.vals[i + 1]}

\* all_subst of move_substitution: one (index, value) per chosen index, the
\* indexes ascending (combinations of the per-index lists, then product).
all_subst(solution, step) ==
    LET all_possibilities ==
            UNION {{<<i, x>> : x \in allowed_values(solution, i)} :
                   i \in 0..(Len(solution.vals) - 1)}
    IN  {c \in [1..step -> all_possibilities] :
            \A p, q \in 1..step : p < q => c[p][1] < c[q][1]}

RECURSIVE subst_loop_before_from_neighbor(_, _, _)
subst_loop_before_from_neighbor(solution, neighbor, list_subst) ==
    IF list_subst = <<>> THEN [neighbor |-> neighbor, calls |-> <<>>]
    ELSE LET n == Len(list_subst)
             prev == subst_loop_before_from_neighbor(solution, neighbor,
                                                     SubSeq(list_subst, 1, n - 1))
             index == list_subst[n][1]
             value == list_subst[n][2]
         IN  [neighbor |-> setitem(prev.neighbor, index, value),
              calls |-> Append(prev.calls, <<index, value, value>>)]

\* The loop of move_substitution over one candidate.
RECURSIVE subst_loop(_, _, _)
subst_loop(solution, neighbor, list_subst) ==
    IF list_subst = <<>> THEN [neighbor |-> neighbor, calls |-> <<>>]
    ELSE LET n == Len(list_subst)
             prev == subst_loop(solution, neighbor, SubSeq(list_subst, 1, n - 1))
             index == list_subst[n][1]
             value == list_subst[n][2]
         IN  [neighbor |-> setitem(prev.neighbor, index, value),
              calls |-> Append(prev.calls, <<index, solution.vals[index + 1], value>>)]

test_swap_unicity_off(val) == TRUE

\* _test_swap_unicity: no two pairs of the candidate share an index.
test_swap_unicity(val) ==
    \A p, q \in DOMAIN val :
        p < q => {val[p][1], val[p][2]} \cap {val[q][1], val[q][2]} = {}

\* list_swaps of move_swap: one pair (i, j), i < j, from each of `step`
\* groups of pairs (a group holds the pairs of one first index), the groups
\* ascending, kept when the pairs are disjoint.
list_swaps(solution, step) ==
    LET n == Len(solution.vals)
        pairs == {ij \in (0..(n - 1)) \X (0..(n - 1)) : ij[1] < ij[2]}
    IN  {c \in [1..step -> pairs] :
            /\ \A p, q \in 1..step : p < q => c[p][1] < c[q][1]
            /\ test_swap_unicity(c)}

\* The candidates a bounded-enumeration move draws from.
Candidates(move, solution, step) ==
    CASE move = "move_binary_flip" -> all_flips(solution, step)
      [] move = "move_substitution" -> all_subst(solution, step)
      [] move = "move_swap" -> list_swaps(solution, step)

\* The body of the enumeration loop: the neighbor built from one candidate
\* on a copy that keeps the fitness.
Build(move, solution, candidate) ==
    CASE move = "move_binary_flip" -> flip_loop(copy(solution, TRUE), candidate)
      [] move = "move_substitution" -> subst_loop(solution, copy(solution, TRUE), candidate)
      [] move = "move_swap" -> swap_loop(solution, copy(solution, TRUE), candidate)

\* One iteration of move_distance_continuous(solution, step, nb_neighbors).
continuous_neighbors(solution, step) ==
    {to_bounds([copy(solution, TRUE) EXCEPT
                   !.vals = [i \in DOMAIN solution.vals |-> solution.vals[i] + vector[i]]]) :
        vector \in Sphere(Len(solution.vals), step)}

EncodingOf(move) ==
    CASE move = "move_binary_flip" -> "BinaryEncoding"
      [] move = "move_distance_continuous" -> "RealEncoding"
      [] move = "move_substitution" -> "DiscreteEncoding"
      [] move = "move_swap" -> "PermutationEncoding"

\* -------------------------------------------------------------- MoveRange
DiscreteMoveRange_convert_unclamped(mr, j) ==
    LET nb_values == mr.high - mr.low + 1
    IN  mr.low + (nb_values * j) \div StepDen

\* DiscreteMoveRange.convert for the step j/StepDen.
DiscreteMoveRange_convert(mr, j) ==
    LET nb_values == mr.high - mr.low + 1
        index == Min2((nb_values * j) \div StepDen, nb_values - 1)
    IN  mr.low + index

\* ContinuousMoveRange.convert for the step j/StepDen; the ranges of the
\* model have bounds that are multiples of StepDen, so the division is exact.
ContinuousMoveRange_convert(mr, j) == mr.low + ((mr.high - mr.low) * j) \div StepDen

convert(mr, j) ==
    IF mr.kind = "DiscreteMoveRange" THEN DiscreteMoveRange_convert(mr, j)
    ELSE ContinuousMoveRange_convert(mr, j)

\* A normalized step given to convert: the number num/StepDen, held as a
\* Python float or as a Python int (then num is a multiple of StepDen).
Step(type, num) == [type |-> type, num |-> num]

check_step_any_number(step) ==
    IF step.num > StepDen \/ step.num < 0 THEN "ValueError" ELSE ""

\* MoveRange._check_step: the type test comes first, then the range test.
check_step(step) ==
    IF step.type # "float" THEN "TypeError"
    ELSE IF step.num > StepDen \/ step.num < 0 THEN "ValueError"
    ELSE ""

\* The values convert returns: an exact number, 10 ** (num/StepDen) for the
\* logarithmic continuous range, or nan.
Value(num) == [nan |-> FALSE, log |-> FALSE, num |-> num]

Pow10(num) == [nan |-> FALSE, log |-> TRUE, num |-> num]

NaN == [nan |-> TRUE, log |-> FALSE, num |-> 0]

\* Python's x <= y on two values of one range: False as soon as one is nan;
\* 10 ** p grows with p.
Leq(x, y) == ~x.nan /\ ~y.nan /\ x.num <= y.num

\* np.log10 on a bound that is 10^e, zero or negative: e, -inf, nan.
log10(x) ==
    IF x < 0 THEN [kind |-> "nan", exp |-> 0]
    ELSE IF x = 0 THEN [kind |-> "-inf", exp |-> 0]
    ELSE [kind |-> "finite", exp |-> CHOOSE e \in 0..MaxExp : 10 ^ e = x]

\* ContinuousLogMoveRange.convert for the step j/StepDen:
\* 10 ** (log_low + (log_high - log_low) * step). With log_low = -inf the
\* power is -inf + inf * step or -inf + nan, nan for every step; with a nan
\* logarithm it is nan as well.
ContinuousLogMoveRange_convert(mr, j) ==
    LET log_low == log10(mr.low)
        log_high == log10(mr.high)
    IN  IF log_low.kind # "finite" \/ log_high.kind # "finite" THEN NaN
        ELSE Pow10(log_low.exp * StepDen + (log_high.exp - log_low.exp) * j)

\* int(np.round(nb_values ** (j/StepDen))): the integer r with
\* r - 1/2 <= nb_values ** (j/StepDen) < r + 1/2 (a tie cannot happen).
round_pow(nb_values, j) ==
    CHOOSE r \in 1..nb_values :
        /\ (2 * r - 1) ^ StepDen <= (2 ^ StepDen) * (nb_values ^ j)
        /\ (2 ^ StepDen) * (nb_values ^ j) < (2 * r + 1) ^ StepDen

\* DiscreteLogMoveRange.convert for the step j/StepDen:
\* 10 ** (log10(nb_values) * step) is nb_values ** step.
DiscreteLogMoveRange_convert(mr, j) ==
    LET nb_values == mr.high - mr.low + 1
        index == round_pow(nb_values, j) - 1
    IN  mr.low + index

\* convert(step) of any of the four move ranges: _check_step, then the
\* conversion of the class.
MoveRange_convert(mr, step) ==
    LET e == check_step(step) IN
    IF e # "" THEN [error |-> e, value |-> None]
    ELSE [error |-> "",
          value |-> Some(CASE mr.kind = "ContinuousMoveRange" ->
                                  Value(ContinuousMoveRange_convert(mr, step.num))
                           [] mr.kind = "ContinuousLogMoveRange" ->
                                  ContinuousLogMoveRange_convert(mr, step.num)
                           [] mr.kind = "DiscreteMoveRange" ->
                                  Value(DiscreteMoveRange_convert(mr, step.num))
                           [] mr.kind = "DiscreteLogMoveRange" ->
                                  Value(DiscreteLogMoveRange_convert(mr, step.num)))]

\* ------------------------------------------------------------------ state
VARIABLES
    solution,    \* the source solution the caller holds
    objective,   \* the Objective: whether a fitness_partial was given
    neighbor,    \* the neighbor last returned or yielded, None when none
    modifs,      \* the ledger the caller holds (its own, or the neighbor's)
    calls,       \* the add_modif calls made on `modifs` since Modifs()
    last_op,     \* the operation that produced (neighbor, modifs)
    last_eval,   \* the last call of the Objective
    gen,         \* the neighborhood generator call in progress
    heap,        \* the array buffers and the Solution objects that view them
    call,        \* the last call of a function of the library and its result
    hc           \* the HillClimbing metaheuristic and the progress of its run()

vars == <<solution, objective, neighbor, modifs, calls, last_op, last_eval, gen, heap, call,
          hc>>

Moves == {"move_binary_flip", "move_distance_continuous", "move_substitution", "move_swap"}

NoEval == [target |-> "none", fitness_before |-> None, modifs_arg |-> None,
           evaluator |-> "none"]

NoGen == [status |-> "idle", cls |-> "none", move |-> "none", step |-> 0, cap |-> 0,
          remaining |-> {}, left |-> 0, yielded |-> EmptyBag, pairs |-> EmptyBag,
          error |-> ""]

NoHeap == [buffers |-> <<>>, objects |-> <<>>, expected |-> <<>>, writes |-> 0]

NoCall == [fn |-> "none", args |-> <<>>, result |-> <<>>]

\* No metaheuristic was built.
NoRun == [pc |-> "none", problem |-> None, base_step |-> 0, solution |-> None,
          previous_fitness |-> None, candidates |-> <<>>, best |-> None, initial |-> None,
          yielded |-> <<>>, check |-> None]

Op(name, step, via, error) == [name |-> name, step |-> step, via |-> via, error |-> error]

\* The solutions the caller may start from, one family per encoding.
BinarySolutions ==
    {Solution(v, BinaryEncoding(Len(v)), None) : v \in SeqsUpTo({0, 1}, MaxLen)}

\* Integer boundaries with the same [lo, hi] at every index, lo = hi included.
BoundariesSet(n) ==
    {Boundaries([i \in 1..n |-> lh[1]], [i \in 1..n |-> lh[2]]) :
        lh \in {c \in (0..MaxVal) \X (0..MaxVal) : c[1] <= c[2]}}

Within(v, b) == \A i \in DOMAIN v : b.minimums[i] <= v[i] /\ v[i] <= b.maximums[i]

DiscreteSolutions ==
    UNION {{Solution(v, DiscreteEncoding(b), None) :
               v \in {w \in SeqsOfLen(0..MaxVal, Len(b.minimums)) : Within(w, b)}} :
           b \in UNION {BoundariesSet(n) : n \in 1..MaxDiscLen}}

RealSolutions ==
    {Solution(v, RealEncoding(Boundaries([i \in DOMAIN v |-> 0], [i \in DOMAIN v |-> MaxVal])),
              None) : v \in SeqsUpTo(0..MaxVal, MaxRealLen)}

\* Permutation solutions up to a renaming of the items: the items are
\* numbered in the order of their first occurrence, repeated items included.
PermutationSolutions ==
    {Solution(v, PermutationEncoding(v), None) :
        v \in {w \in SeqsUpTo(0..MaxItem, MaxPermLen) :
                  \A i \in DOMAIN w :
                      \/ w[i] = 0
                      \/ \E j \in 1..(i - 1) : w[j] = w[i] - 1}}

Solutions == BinarySolutions \cup DiscreteSolutions \cup RealSolutions \cup PermutationSolutions

Init ==
    /\ \E s \in Solutions, f \in {None, Some(VALUE_NOT_RETURNED)} :
           solution = [s EXCEPT !.fitness = f]
    /\ objective \in {[fitness_partial |-> p] : p \in BOOLEAN}
    /\ neighbor = None
    /\ modifs = <<>>
    /\ calls = <<>>
    /\ last_op = Op("Modifs", 0, "direct", "")
    /\ last_eval = NoEval
    /\ gen = NoGen
    /\ heap = NoHeap
    /\ call = NoCall
    /\ hc = NoRun

\* ---------------------------------------------------------------- actions
\* m = Modifs()
NewModifs ==
    /\ modifs' = <<>>
    /\ calls' = <<>>
    /\ last_op' = Op("Modifs", 0, "direct", "")
    /\ UNCHANGED <<solution, objective, neighbor, last_eval, gen, heap, call, hc>>

\* m.add_modif(index, val_before, val_after) on the caller's own ledger
AddModifCall ==
    /\ Len(calls) < MaxCalls
    /\ \E index \in 0..MaxIndex, val_before \in 0..MaxLedgerVal, val_after \in 0..MaxLedgerVal :
           /\ modifs' = add_modif(modifs, index, val_before, val_after)
           /\ calls' = Append(calls, <<index, val_before, val_after>>)
    /\ last_op' = Op("add_modif", 0, "direct", "")
    /\ UNCHANGED <<solution, objective, neighbor, last_eval, gen, heap, call, hc>>

\* objective(solution), objective(solution, modifs) or
\* objective(solution, Modifs()) on the source solution
EvaluateSolution ==
    \E modifs_arg \in {None, Some(modifs), Some(<<>>)} :
        LET r == Objective_call(objective, solution, modifs_arg) IN
        /\ solution' = [solution EXCEPT !.fitness = r.fitness]
        /\ last_eval' = [target |-> "solution", fitness_before |-> solution.fitness,
                         modifs_arg |-> modifs_arg, evaluator |-> r.evaluator]
        /\ UNCHANGED <<objective, neighbor, modifs, calls, last_op, gen, heap, call, hc>>

\* The same calls on the source solution with the Objective of
\* prob/objective.py.
ProbEvaluateSolution ==
    \E modifs_arg \in {None, Some(modifs), Some(<<>>)} :
        LET r == prob_Objective_call(objective, solution, modifs_arg) IN
        /\ solution' = [solution EXCEPT !.fitness = r.fitness]
        /\ last_eval' = [target |-> "solution", fitness_before |-> solution.fitness,
                         modifs_arg |-> modifs_arg, evaluator |-> r.evaluator]
        /\ UNCHANGED <<objective, neighbor, modifs, calls, last_op, gen, heap, call, hc>>

\* objective(neighbor) or objective(neighbor, modifs) on the last neighbor
\* with the ledger that came with it
EvaluateNeighbor ==
    /\ neighbor # None
    /\ \E modifs_arg \in {None, Some(modifs)} :
        LET r == Objective_call(objective, neighbor[1], modifs_arg) IN
        /\ neighbor' = Some([neighbor[1] EXCEPT !.fitness = r.fitness])
        /\ last_eval' = [target |-> "neighbor", fitness_before |-> neighbor[1].fitness,
                         modifs_arg |-> modifs_arg, evaluator |-> r.evaluator]
        /\ UNCHANGED <<solution, objective, modifs, calls, last_op, gen, heap, call, hc>>

\* The results of the atomic move functions of move_functions.py.
MoveResults(move, sol, step) ==
    CASE move = "move_binary_flip" -> move_binary_flip(sol, step)
      [] move = "move_distance_continuous" -> move_distance_continuous(sol, step)
      [] move = "move_substitution" -> move_substitution(sol, step)
      [] move = "move_swap" -> move_swap(sol, step)

\* neighbor, modifs = move(solution, step): the caller draws one neighbor of
\* its solution (a later draw from the same source gives the same results).
Move ==
    /\ last_op.name = "Modifs"
    /\ \E move \in Moves, step \in 0..MaxStep :
        \E r \in MoveResults(move, solution, step) :
            /\ neighbor' = r.neighbor
            /\ calls' = r.calls
            /\ modifs' = Apply(r.calls)
            /\ last_op' = Op(move, step, "direct", r.error)
    /\ last_eval' = NoEval
    /\ UNCHANGED <<solution, objective, gen, heap, call, hc>>

\* The move ranges neigborhood_factory pairs with each move function.
DiscreteMoveRanges ==
    {[kind |-> "DiscreteMoveRange", low |-> lh[1], high |-> lh[2]] :
        lh \in {c \in (0..MaxStep) \X (0..MaxStep) : c[1] <= c[2]}}

ContinuousMoveRanges ==
    {[kind |-> "ContinuousMoveRange", low |-> StepDen * lh[1], high |-> StepDen * lh[2]] :
        lh \in {c \in (0..MaxRadius) \X (0..MaxRadius) : c[1] <= c[2]}}

MoveRangesFor(move) ==
    IF move = "move_distance_continuous" THEN ContinuousMoveRanges ELSE DiscreteMoveRanges

\* self.move_range.convert(step) over the move ranges and normalized steps.
ConvertedSteps(move) == {convert(mr, j) : mr \in MoveRangesFor(move), j \in 0..StepDen}

StartGen(cls, move, step, cap) ==
    [status |-> "running", cls |-> cls, move |-> move, step |-> step, cap |-> cap,
     remaining |-> {}, left |-> 0, yielded |-> EmptyBag, pairs |-> EmptyBag,
     error |-> ""]

\* NeighborhoodGenerator.__call__ up to the loop of the move function (of
\* neighborhood.py): the step is converted once, the candidates are laid out
\* and the slice all_xxx[:nb_neighbors] fixes how many will be yielded.  The
\* shuffle is resolved as the loop goes: its next element is any candidate
\* not yet taken.  The caller makes one call on its solution.
GeneratorCall ==
    /\ gen.status = "idle"
    /\ last_op.name = "Modifs"
    /\ \E move \in Moves, cap \in 0..MaxNeighbors :
        \E converted_step \in ConvertedSteps(move) :
            LET g == StartGen("NeighborhoodGenerator", move, converted_step, cap) IN
            IF ~implemented_for({EncodingOf(move)}, solution)
            THEN gen' = [g EXCEPT !.status = "error", !.error = "NotImplementedError"]
            ELSE IF move = "move_distance_continuous"
            THEN gen' = [g EXCEPT !.left = cap]
            ELSE gen' = [g EXCEPT
                            !.remaining = Candidates(move, solution, converted_step),
                            !.left = slice_length(Candidates(move, solution, converted_step),
                                                  cap)]
    /\ neighbor' = None
    /\ modifs' = <<>>
    /\ calls' = <<>>
    /\ last_op' = Op("NeighborhoodGenerator", 0, "direct", "")
    /\ last_eval' = NoEval
    /\ UNCHANGED <<solution, objective, heap, call, hc>>

\* What the next resumption may yield: for the hypersphere jump a new random
\* neighbor with an empty ledger, for the other moves the neighbor built
\* from the next candidate.
NextYields(g, sol) ==
    IF g.move = "move_distance_continuous"
    THEN {[neighbor |-> n, calls |-> <<>>, candidate |-> <<>>] :
             n \in continuous_neighbors(sol, g.step)}
    ELSE {[neighbor |-> Build(g.move, sol, candidate).neighbor,
           calls |-> Build(g.move, sol, candidate).calls,
           candidate |-> candidate] : candidate \in g.remaining}

\* One resumption of the generator: the next (neighbor, modifs) is yielded.
GeneratorNext ==
    /\ gen.status = "running"
    /\ gen.left > 0
    /\ \E y \in NextYields(gen, solution) :
           /\ neighbor' = Some(y.neighbor)
           /\ calls' = y.calls
           /\ modifs' = Apply(y.calls)
           /\ gen' = [gen EXCEPT !.remaining = @ \ {y.candidate},
                                 !.left = @ - 1,
                                 !.yielded = @ (+) SetToBag({Apply(y.calls)})]
    /\ last_op' = Op(gen.move, gen.step, "NeighborhoodGenerator", "")
    /\ last_eval' = NoEval
    /\ UNCHANGED <<solution, objective, heap, call, hc>>

\* The resumption that finds nothing left to yield.
GeneratorStop ==
    /\ gen.status = "running"
    /\ gen.left = 0
    /\ gen' = [gen EXCEPT !.status = "done"]
    /\ UNCHANGED <<solution, objective, neighbor, modifs, calls, last_op, last_eval, heap, call,
                   hc>>

\* The ledgers, and the (neighbor, ledger) pairs, built from each candidate
\* of a set, with their multiplicities.  gen.yielded counts the ledgers of
\* every call; gen.pairs is the list a caller of list(move(...)) collects.
RECURSIVE LedgersOf(_, _, _)
LedgersOf(move, sol, candidates) ==
    IF candidates = {} THEN EmptyBag
    ELSE LET c == CHOOSE x \in candidates : TRUE IN
         SetToBag({Apply(Build(move, sol, c).calls)})
             (+) LedgersOf(move, sol, candidates \ {c})

RECURSIVE PairsOf(_, _, _)
PairsOf(move, sol, candidates) ==
    IF candidates = {} THEN EmptyBag
    ELSE LET c == CHOOSE x \in candidates : TRUE IN
         SetToBag({<<Build(move, sol, c).neighbor.vals, Apply(Build(move, sol, c).calls)>>})
             (+) PairsOf(move, sol, candidates \ {c})

\* list(move(solution, step, None)) with a move of neighborhood.py: with
\* nb_neighbors None the slice takes len(all_xxx), so the loop runs over
\* every candidate, in the order of the shuffle; the caller keeps what was
\* yielded.  range(None) of move_distance_continuous raises TypeError.
EnumerateAll ==
    /\ gen.status = "idle"
    /\ last_op.name = "Modifs"
    /\ \E move \in Moves, step \in 0..MaxStep :
        LET g == StartGen("direct", move, step, 0) IN
        IF ~implemented_for({EncodingOf(move)}, solution)
        THEN gen' = [g EXCEPT !.status = "error", !.error = "NotImplementedError"]
        ELSE IF move = "move_distance_continuous"
        THEN gen' = [g EXCEPT !.status = "error", !.error = "TypeError"]
        ELSE LET candidates == Candidates(move, solution, step) IN
             gen' = [g EXCEPT !.status = "done",
                              !.cap = Cardinality(candidates),
                              !.yielded = LedgersOf(move, solution, candidates),
                              !.pairs = PairsOf(move, solution, candidates)]
    /\ neighbor' = None
    /\ modifs' = <<>>
    /\ calls' = <<>>
    /\ last_op' = Op("enumeration", 0, "direct", "")
    /\ last_eval' = NoEval
    /\ UNCHANGED <<solution, objective, heap, call, hc>>

\* The test `not modif or modif not in seen_modifs` followed by
\* seen_modifs.add(modif): a Modifs is an OrderedDict, which has no hash, so
\* the membership test (non-empty ledger) or the add (empty ledger) raises
\* TypeError; an exception of the move itself comes first.
seen_modifs_check(r) == IF r.error # "" THEN r.error ELSE "TypeError"

\* NeighborhoodOperator.__call__ with an atomic move function of
\* move_functions.py, up to its first yield or exception.  The caller makes
\* one call on its solution.
OperatorCall ==
    /\ gen.status = "idle"
    /\ last_op.name = "Modifs"
    /\ \E move \in Moves, cap \in 0..MaxNeighbors :
        \E converted_step \in ConvertedSteps(move) :
            LET g == StartGen("NeighborhoodOperator", move, converted_step, cap) IN
            IF cap = 0
            THEN gen' = [g EXCEPT !.status = "done"]
            ELSE \E r \in MoveResults(move, solution, converted_step) :
                     gen' = [g EXCEPT !.status = "error", !.error = seen_modifs_check(r)]
    /\ neighbor' = None
    /\ modifs' = <<>>
    /\ calls' = <<>>
    /\ last_op' = Op("NeighborhoodOperator", 0, "direct", "")
    /\ last_eval' = NoEval
    /\ UNCHANGED <<solution, objective, heap, call, hc>>

\* copy = solution.copy(copy_fitness) on the heap; `expected` notes the
\* values the copy starts with.
CopyCall ==
    /\ Len(heap.objects) = 1
    /\ \E copy_fitness \in BOOLEAN :
           /\ heap' = [Solution_copy(heap, 1, copy_fitness) EXCEPT
                           !.expected = Append(@, heap.buffers[heap.objects[1].buf])]
           /\ call' = [fn |-> "copy", args |-> <<copy_fitness>>, result |-> <<>>]
    /\ UNCHANGED <<solution, objective, neighbor, modifs, calls, last_op, last_eval, gen, hc>>

\* obj[index] = value on the source (object 1) or on its copy (object 2);
\* `expected` notes the write for the object written through only.
SetItemCall ==
    /\ heap.writes < MaxWrites
    /\ \E obj \in DOMAIN heap.objects, index \in 0..MaxIndex, value \in 0..MaxVal :
           /\ index < Len(heap.expected[obj])
           /\ heap' = [heap_setitem(heap, obj, index, value) EXCEPT
                           !.expected[obj][index + 1] = value,
                           !.writes = @ + 1]
    /\ UNCHANGED <<solution, objective, neighbor, modifs, calls, last_op, last_eval, gen,
                   call,
                   hc>>

\* The fitness flag of the copy a move starts from: move_distance_continuous
\* calls solution.copy(), the other moves solution.copy(copy_fitness=True).
copy_fitness_of(move) == move # "move_distance_continuous"

\* neighbor, modifs = move(solution, step) with a move of move_functions.py,
\* on the heap: the source is object 1, each neighbor returned is a new
\* object the caller binds.  A move that raises returns nothing.
HeapMoveCall ==
    /\ \E r \in UNION {{[error |-> m.error, neighbor |-> m.neighbor,
                          copy_fitness |-> copy_fitness_of(ms[1])] :
                            m \in MoveResults(ms[1], Deref(heap, 1), ms[2])} :
                        ms \in Moves \X (0..MaxStep)} :
           /\ heap' = IF r.error # "" THEN heap
                      ELSE [heap_move(heap_rebind(heap), 1, r.copy_fitness,
                                      r.neighbor[1].vals)
                               EXCEPT !.expected = Append(@, r.neighbor[1].vals)]
           /\ neighbor' = r.neighbor
           /\ call' = [fn |-> "move", args |-> <<>>, result |-> <<r.error>>]
    /\ UNCHANGED <<solution, objective, modifs, calls, last_op, last_eval, gen, hc>>

\* What the generators of neighborhood.py can yield for a solution: nothing
\* when the decorator rejects its encoding.
HeapYields(sol) ==
    UNION {IF ~implemented_for({EncodingOf(ms[1])}, sol) THEN {}
           ELSE {y.neighbor :
                    y \in NextYields([move |-> ms[1], step |-> ms[2],
                                      remaining |->
                                          IF ms[1] = "move_distance_continuous" THEN {}
                                          ELSE Candidates(ms[1], sol, ms[2])],
                                     sol)} :
              ms \in Moves \X (0..MaxStep)}

\* One neighbor yielded by a neighborhood generator of neighborhood.py for
\* the source, on the heap.
HeapGeneratorCall ==
    /\ \E n \in HeapYields(Deref(heap, 1)) :
           /\ heap' = [heap_move(heap_rebind(heap), 1, TRUE, n.vals)
                           EXCEPT !.expected = Append(@, n.vals)]
           /\ neighbor' = Some(n)
           /\ call' = [fn |-> "generator", args |-> <<>>, result |-> <<"">>]
    /\ UNCHANGED <<solution, objective, modifs, calls, last_op, last_eval, gen, hc>>

\* solution.to_bounds(), at most twice in a row; the call notes the
\* solution it was made on, its rank and the solution before the first call.
ToBoundsCall ==
    /\ IF call.fn = "none" THEN TRUE ELSE call.args[2] < 2
    /\ LET r == Solution_to_bounds(solution) IN
        /\ solution' = r.solution
        /\ call' = [fn |-> "to_bounds",
                    args |-> IF call.fn = "none" THEN <<solution, 1, solution>>
                             ELSE <<solution, call.args[2] + 1, call.args[3]>>,
                    result |-> <<r.error>>]
    /\ UNCHANGED <<objective, neighbor, modifs, calls, last_op, last_eval, gen, heap, hc>>

\* Boundaries(minimums, maximums, type), once.
BoundariesCall ==
    /\ call.fn = "none"
    /\ \E minimums, maximums \in {<<>>} \cup SeqsUpTo(0..(MaxVal + 1), MaxBoundLen),
          type \in {"int", "float"} :
           call' = [fn |-> "Boundaries",
                    args |-> <<minimums, maximums, type>>,
                    result |-> <<Boundaries_new(minimums, maximums, type)>>]
    /\ UNCHANGED <<solution, objective, neighbor, modifs, calls, last_op, last_eval, gen, heap,
                   hc>>

\* boundaries.normalize(array) on boundaries that were constructed.
NormalizeCall ==
    /\ call.fn = "Boundaries"
    /\ call.result[1].error = ""
    /\ LET self == call.result[1].bounds[1] IN
        \E array \in SeqsOfLen(0..MaxVal, Len(self.minimums)) :
           call' = [fn |-> "normalize",
                    args |-> <<self, array>>,
                    result |-> <<normalize(self, array)>>]
    /\ UNCHANGED <<solution, objective, neighbor, modifs, calls, last_op, last_eval, gen, heap,
                   hc>>

\* The move ranges that can be constructed: low <= high, integers for the
\* discrete classes, floats for the continuous ones (multiples of StepDen
\* for the linear class, zero, a negative number or a power of ten for the
\* logarithmic one).
Ordered(S) == {c \in S \X S : c[1] <= c[2]}

AllMoveRanges ==
    {[kind |-> k, low |-> lh[1], high |-> lh[2]] :
        k \in {"DiscreteMoveRange", "DiscreteLogMoveRange"},
        lh \in Ordered((0 - 1)..MaxStep)}
    \cup {[kind |-> "ContinuousMoveRange", low |-> StepDen * lh[1], high |-> StepDen * lh[2]] :
             lh \in Ordered((0 - 1)..MaxRadius)}
    \cup {[kind |-> "ContinuousLogMoveRange", low |-> lh[1], high |-> lh[2]] :
             lh \in Ordered({0 - 1, 0} \cup {10 ^ e : e \in 0..MaxExp})}

\* The steps a caller may hand over: floats from -1/StepDen to
\* (StepDen + 1)/StepDen and the integers -1, 0, 1, 2.
Steps ==
    {Step("float", num) : num \in (0 - 1)..(StepDen + 1)}
    \cup {Step("int", StepDen * k) : k \in (0 - 1)..2}

\* move_range.convert(step) on a move range of any class.
ConvertCall ==
    /\ call.fn = "none"
    /\ \E mr \in AllMoveRanges, step \in Steps :
           call' = [fn |-> "convert",
                    args |-> <<mr, step>>,
                    result |-> <<MoveRange_convert(mr, step)>>]
    /\ UNCHANGED <<solution, objective, neighbor, modifs, calls, last_op, last_eval, gen, heap,
                   hc>>

\* A second move_range.convert(step) on the same move range; the call keeps
\* both steps and both outcomes.
ConvertAgainCall ==
    /\ call.fn = "convert"
    /\ \E step \in Steps :
           call' = [fn |-> "convert_again",
                    args |-> <<call.args[1], call.args[2], step>>,
                    result |-> <<call.result[1], MoveRange_convert(call.args[1], step)>>]
    /\ UNCHANGED <<solution, objective, neighbor, modifs, calls, last_op, last_eval, gen, heap,
                   hc>>

\* The names a decorator may be given: class names as written, in lower
\* case or in upper case, and the name of the abstract class.
TypeNames ==
    {"BinaryEncoding", "binaryencoding", "BINARYENCODING",
     "DiscreteEncoding", "discreteencoding", "DISCRETEENCODING",
     "RealEncoding", "realencoding", "REALENCODING",
     "PermutationEncoding", "permutationencoding", "PERMUTATIONENCODING",
     "Encoding", "encoding", "ENCODING"}

\* f = decorator(*type_names)(func); f(solution), with one or two names.
DecoratedCall ==
    /\ call.fn = "none"
    /\ \E decorator \in {"implemented_for", "not_implemented_for"},
          n1, n2 \in TypeNames :
           LET r == wrapper(decorator, {n1, n2}, solution) IN
           /\ call' = [fn |-> decorator, args |-> <<{n1, n2}, solution>>, result |-> <<r>>]
           /\ neighbor' = r.value
    /\ UNCHANGED <<solution, objective, modifs, calls, last_op, last_eval, gen, heap, hc>>

\* The encodings a caller may hold: those of the solutions and the
\* abstract one.
Encodings == {s.encoding : s \in Solutions} \cup {AbstractEncoding}

\* encoding.space_size()
SpaceSizeCall ==
    /\ call.fn = "none"
    /\ \E encoding \in Encodings :
           call' = [fn |-> "space_size", args |-> <<encoding>>,
                    result |-> <<space_size(encoding)>>]
    /\ UNCHANGED <<solution, objective, neighbor, modifs, calls, last_op, last_eval, gen, heap,
                   hc>>

\* The solutions whose encoding has the content of `encoding` (for the
\* abstract class, which encodes nothing, any binary solution).
SolutionsOf(encoding) ==
    IF encoding = AbstractEncoding THEN BinarySolutions
    ELSE {s \in Solutions : s.encoding = encoding}

\* encoding.distance(solution_1, solution_2): each solution refers to the
\* encoding object itself (id 1) or to another object of equal content
\* (id 2).
DistanceCall ==
    /\ call.fn = "none"
    /\ \E encoding \in Encodings :
       \E s1, s2 \in SolutionsOf(encoding), id1, id2 \in 1..2 :
           /\ Len(s1.vals) = Len(s2.vals)
           /\ LET self == EncodingObject(1, encoding)
                  solution_1 == [s1 EXCEPT !.encoding = EncodingObject(id1, s1.encoding)]
                  solution_2 == [s2 EXCEPT !.encoding = EncodingObject(id2, s2.encoding)]
              IN  call' = [fn |-> "distance", args |-> <<self, solution_1, solution_2>>,
                           result |-> <<distance(self, solution_1, solution_2)>>]
    /\ UNCHANGED <<solution, objective, neighbor, modifs, calls, last_op, last_eval, gen, heap,
                   hc>>

\* Problem.generate_solution() of a problem that holds `encoding`:
\* Solution(self.encoding.generate_random_value(), self.encoding).
GenerateSolutionCall ==
    /\ call.fn = "none"
    /\ \E encoding \in Encodings \ {AbstractEncoding} :
       \E value \in generate_random_value(encoding) :
           /\ solution' = Solution(value, EncodingObject(1, encoding), None)
           /\ call' = [fn |-> "generate_solution",
                       args |-> <<EncodingObject(1, encoding)>>,
                       result |-> <<value>>]
    /\ UNCHANGED <<objective, neighbor, modifs, calls, last_op, last_eval, gen, heap, hc>>

\* BinaryEncoding(size), DiscreteEncoding(boundaries) or
\* RealEncoding(boundaries), with boundaries of either dtype.
ConstructEncodingCall ==
    /\ call.fn = "none"
    /\ \/ \E size \in (0 - 1)..MaxLen :
              call' = [fn |-> "BinaryEncoding", args |-> <<size>>,
                       result |-> <<BinaryEncoding_init(size)>>]
       \/ \E n \in 1..MaxDiscLen : \E boundaries \in BoundariesSet(n), type \in {"int", "float"} :
              \/ call' = [fn |-> "DiscreteEncoding", args |-> <<boundaries, type>>,
                          result |-> <<DiscreteEncoding_init(boundaries, type)>>]
              \/ call' = [fn |-> "RealEncoding", args |-> <<boundaries, type>>,
                          result |-> <<RealEncoding_init(boundaries, type)>>]
    /\ UNCHANGED <<solution, objective, neighbor, modifs, calls, last_op, last_eval, gen, heap,
                   hc>>

\* The bounds a move range may be given: small numbers held as int or float.
Bounds == {[type |-> t, num |-> n] : t \in {"int", "float"}, n \in (0 - 1)..MaxStep}

\* The constructor of one of the four move range classes.
ConstructMoveRangeCall ==
    /\ call.fn = "none"
    /\ \E low, high \in Bounds :
          \/ \E kind \in {"ContinuousMoveRange", "ContinuousLogMoveRange"} :
                 call' = [fn |-> kind, args |-> <<low, high>>,
                          result |-> <<ContinuousMoveRange_init(kind, low, high)>>]
          \/ \E kind \in {"DiscreteMoveRange", "DiscreteLogMoveRange"} :
                 call' = [fn |-> kind, args |-> <<low, high>>,
                          result |-> <<DiscreteMoveRange_init(kind, low, high)>>]
    /\ UNCHANGED <<solution, objective, neighbor, modifs, calls, last_op, last_eval, gen, heap,
                   hc>>

\* --------------------------------------------------------- specifications
\* A caller of the atomic move functions who evaluates the neighbors.
Next ==
    \/ Move
    \/ EvaluateNeighbor

Spec == Init /\ [][Next]_vars

\* A caller who draws the neighbors of its solution, by one call of an atomic
\* move function or by one call of a neighborhood generator; it has no use
\* for an Objective with a partial evaluator.
InitGenerator ==
    /\ \E s \in Solutions, f \in {None, Some(VALUE_NOT_RETURNED)} :
           solution = [s EXCEPT !.fitness = f]
    /\ objective = [fitness_partial |-> FALSE]
    /\ neighbor = None
    /\ modifs = <<>>
    /\ calls = <<>>
    /\ last_op = Op("Modifs", 0, "direct", "")
    /\ last_eval = NoEval
    /\ gen = NoGen
    /\ heap = NoHeap
    /\ call = NoCall
    /\ hc = NoRun

NextGenerator ==
    \/ Move
    \/ GeneratorCall
    \/ GeneratorNext
    \/ GeneratorStop
    \/ OperatorCall
    \/ EnumerateAll

SpecGenerator == InitGenerator /\ [][NextGenerator]_vars

\* A caller of the Objective on a source solution, with or without a ledger.
InitObjective ==
    /\ \E s \in Solutions, f \in {None, Some(VALUE_NOT_RETURNED)} :
           solution = [s EXCEPT !.fitness = f]
    /\ objective \in {[fitness_partial |-> p] : p \in BOOLEAN}
    /\ neighbor = None
    /\ calls \in {<<>>, << <<0, 0, 1>> >>}
    /\ modifs = Apply(calls)
    /\ last_op = Op("add_modif", 0, "direct", "")
    /\ last_eval = NoEval
    /\ gen = NoGen
    /\ heap = NoHeap
    /\ call = NoCall
    /\ hc = NoRun

NextObjective == EvaluateSolution

SpecObjective == InitObjective /\ [][NextObjective]_vars

\* A caller filling a Modifs by hand.
InitModifs ==
    /\ solution = Solution(<<0>>, BinaryEncoding(1), None)
    /\ objective = [fitness_partial |-> FALSE]
    /\ neighbor = None
    /\ modifs = <<>>
    /\ calls = <<>>
    /\ last_op = Op("Modifs", 0, "direct", "")
    /\ last_eval = NoEval
    /\ gen = NoGen
    /\ heap = NoHeap
    /\ call = NoCall
    /\ hc = NoRun

NextModifs == NewModifs \/ AddModifCall

SpecModifs == InitModifs /\ [][NextModifs]_vars

\* ----------------------------------------------------------------- claims
\* The calls made for `index`, in order.
CallsFor(index) == SelectSeq(calls, LAMBDA c : c[1] = index)

Touched == {calls[p][1] : p \in DOMAIN calls}

\* C1: after any sequence of add_modif calls on a new ledger, the ledger
\* holds exactly the touched indexes and the entry of each is (val_before of
\* the first call made for it, val_after of the last call made for it).
C1_FirstBeforeLastAfter ==
    /\ Keys(modifs) = Touched
    /\ Len(modifs) = Cardinality(Touched)
    /\ \A index \in Touched :
           Get(modifs, index) =
               Some(<<CallsFor(index)[1][2], CallsFor(index)[Len(CallsFor(index))][3]>>)

\* add_modif(i, a, b) then add_modif(i, b, c), with a, b, c all different,
\* has left (a, c).
C1_Witness ==
    /\ Len(calls) = 2
    /\ calls[1][1] = calls[2][1]
    /\ calls[1][3] = calls[2][2]
    /\ Cardinality({calls[1][2], calls[1][3], calls[2][3]}) = 3
    /\ Get(modifs, calls[1][1]) = Some(<<calls[1][2], calls[2][3]>>)

\* C2: whenever the Objective computes a fitness, the partial evaluator runs
\* if and only if the fitness was already set, the supplied ledger is
\* non-empty and a partial evaluator was given; otherwise the full one runs.
C2_PartialIff ==
    last_eval.evaluator # "none" =>
        LET partial == /\ last_eval.fitness_before # None
                       /\ last_eval.modifs_arg # None
                       /\ last_eval.modifs_arg[1] # <<>>
                       /\ objective.fitness_partial
        IN  /\ partial => /\ last_eval.evaluator = "fitness_partial"
                          /\ solution.fitness = Some(VALUE_RETURNED_FIT_PART)
            /\ ~partial => /\ last_eval.evaluator = "fitness"
                           /\ solution.fitness = Some(VALUE_RETURNED_FIT)

\* The partial evaluator has run on a solution that was evaluated before.
C2_Witness ==
    /\ last_eval.evaluator = "fitness_partial"
    /\ last_eval.fitness_before # None
    /\ last_eval.modifs_arg = Some(modifs)
    /\ modifs # <<>>

\* C3: a call with the fitness set and no ledger runs no evaluator and
\* leaves the fitness as it was; a call with a ledger, even an empty one,
\* always runs an evaluator and overwrites the fitness with its value.
C3_SkipOrOverwrite ==
    last_eval.target = "solution" =>
        /\ (last_eval.fitness_before # None /\ last_eval.modifs_arg = None) =>
               /\ last_eval.evaluator = "none"
               /\ solution.fitness = last_eval.fitness_before
        /\ last_eval.modifs_arg # None =>
               /\ last_eval.evaluator \in {"fitness", "fitness_partial"}
               /\ solution.fitness = IF last_eval.evaluator = "fitness"
                                     THEN Some(VALUE_RETURNED_FIT)
                                     ELSE Some(VALUE_RETURNED_FIT_PART)

\* A set fitness has been overwritten by a call with an empty ledger.
C3_Witness ==
    /\ last_eval.target = "solution"
    /\ last_eval.fitness_before = Some(VALUE_NOT_RETURNED)
    /\ last_eval.modifs_arg = Some(<<>>)
    /\ solution.fitness = Some(VALUE_RETURNED_FIT)

Returned(move) == last_op.name = move /\ last_op.error = "" /\ neighbor # None

\* C4: a neighbor of move_distance_continuous comes with an empty ledger,
\* and evaluating it with that ledger runs the full evaluator, with or
\* without a partial evaluator and with or without a cached fitness.
C4_EmptyLedgerFullEvaluation ==
    Returned("move_distance_continuous") =>
        /\ modifs = <<>>
        /\ (last_eval.target = "neighbor" /\ last_eval.modifs_arg = Some(modifs)) =>
               /\ last_eval.evaluator = "fitness"
               /\ neighbor[1].fitness = Some(VALUE_RETURNED_FIT)

\* A jumped neighbor that already had a fitness was evaluated again with its
\* ledger by an Objective that has a partial evaluator.
C4_Witness ==
    /\ Returned("move_distance_continuous")
    /\ last_op.step > 0
    /\ neighbor[1].vals # solution.vals
    /\ objective.fitness_partial
    /\ last_eval.target = "neighbor"
    /\ last_eval.fitness_before # None
    /\ last_eval.modifs_arg = Some(<<>>)

\* C5: for a binary solution of length n and 1 <= k <= n, a neighbor of
\* move_binary_flip differs from the source at exactly k positions and its
\* ledger has exactly k entries, each (b, 1-b) with b the source's bit.
C5_FlipExactlyK ==
    (/\ Returned("move_binary_flip")
     /\ 1 <= last_op.step
     /\ last_op.step <= Len(solution.vals)) =>
        /\ Hamming(solution.vals, neighbor[1].vals) = last_op.step
        /\ Len(modifs) = last_op.step
        /\ \A p \in DOMAIN modifs :
               /\ modifs[p].val_before = solution.vals[modifs[p].index + 1]
               /\ modifs[p].val_after = 1 - modifs[p].val_before

\* Two bits of different values were flipped.
C5_Witness ==
    /\ Returned("move_binary_flip")
    /\ last_op.step = 2
    /\ Len(modifs) = 2
    /\ modifs[1].val_before # modifs[2].val_before
    /\ Hamming(solution.vals, neighbor[1].vals) = 2

\* C6: for a discrete solution within its bounds and a step k, a neighbor of
\* move_substitution has a ledger of exactly k entries, each with an after
\* value different from the before value and inside [min_val, max_val].
C6_SubstitutionLedger ==
    Returned("move_substitution") =>
        /\ Len(modifs) = last_op.step
        /\ \A p \in DOMAIN modifs :
               /\ modifs[p].val_after # modifs[p].val_before
               /\ min_val(solution, modifs[p].index) <= modifs[p].val_after
               /\ modifs[p].val_after <= max_val(solution, modifs[p].index)

\* Two attributes were substituted, one of them by its upper bound.
C6_Witness ==
    /\ Returned("move_substitution")
    /\ last_op.step = 2
    /\ Len(modifs) = 2
    /\ modifs[1].val_after = max_val(solution, modifs[1].index)
    /\ modifs[2].val_after # max_val(solution, modifs[2].index)

\* The indexes move_swap exchanged, in the order of its add_modif calls.
SwapIndexesDisjoint ==
    /\ Len(calls) = 2 * last_op.step
    /\ \A p, q \in DOMAIN calls : p # q => calls[p][1] # calls[q][1]

Changed == {p \in DOMAIN modifs : modifs[p].val_before # modifs[p].val_after}

Distinct(v) == \A i, j \in DOMAIN v : i # j => v[i] # v[j]

\* C7 as stated: the k pairs share no index, the ledger has exactly 2k
\* entries and the neighbor is at Hamming distance exactly 2k.
C7_SwapHammingExactly2k ==
    Returned("move_swap") =>
        /\ SwapIndexesDisjoint
        /\ Len(modifs) = 2 * last_op.step
        /\ Hamming(solution.vals, neighbor[1].vals) = 2 * last_op.step

\* C7 amended: the k pairs share no index and the ledger has exactly 2k
\* entries; the neighbor differs from the source exactly at the exchanged
\* indexes whose two values differ, so at 2k positions when the items are
\* pairwise distinct and at no more than 2k positions otherwise.
C7_SwapHammingAtMost2k ==
    Returned("move_swap") =>
        /\ SwapIndexesDisjoint
        /\ Len(modifs) = 2 * last_op.step
        /\ Hamming(solution.vals, neighbor[1].vals) = Cardinality(Changed)
        /\ Hamming(solution.vals, neighbor[1].vals) <= 2 * last_op.step
        /\ Distinct(solution.vals) =>
               Hamming(solution.vals, neighbor[1].vals) = 2 * last_op.step

\* Two pairs were exchanged, one of them holding twice the same item.
C7_Witness ==
    /\ Returned("move_swap")
    /\ last_op.step = 2
    /\ Len(modifs) = 4
    /\ Hamming(solution.vals, neighbor[1].vals) = 2

\* C8: for the flip, substitution and swap moves the ledger describes the
\* neighbor exactly: an index in the ledger has the entry (source value,
\* neighbor value), an index outside it has the source's value, and writing
\* the after values into the source gives the neighbor.
Replay(vals, m) ==
    [i \in DOMAIN vals |-> IF (i - 1) \in Keys(m) THEN Get(m, i - 1)[1][2] ELSE vals[i]]

C8_LedgerDescribesNeighbor ==
    (\E move \in {"move_binary_flip", "move_substitution", "move_swap"} : Returned(move)) =>
        /\ \A i \in DOMAIN solution.vals :
               IF (i - 1) \in Keys(modifs)
               THEN Get(modifs, i - 1) = Some(<<solution.vals[i], neighbor[1].vals[i]>>)
               ELSE neighbor[1].vals[i] = solution.vals[i]
        /\ Keys(modifs) \subseteq {i - 1 : i \in DOMAIN solution.vals}
        /\ Replay(solution.vals, modifs) = neighbor[1].vals

\* A substitution left one index out of its ledger and changed the other.
C8_Witness ==
    /\ Returned("move_substitution")
    /\ Len(solution.vals) = 2
    /\ Len(modifs) = 1
    /\ neighbor[1].vals # solution.vals
    /\ Replay(solution.vals, modifs) = neighbor[1].vals

ValidCall ==
    /\ implemented_for({EncodingOf(gen.move)}, solution)
    /\ gen.move = "move_binary_flip" => gen.step <= Len(solution.vals)
    /\ gen.move = "move_substitution" => gen.step <= Len(solution.vals)
    /\ gen.move = "move_swap" => 2 * gen.step <= Len(solution.vals)

\* C10: a generator call that has ended has stopped because the cap was
\* reached or because the candidates were exhausted.
C10_StopsAtCapOrExhaustion ==
    (gen.status \in {"done", "error"} /\ ValidCall) =>
        /\ gen.status = "done"
        /\ \/ BagCardinality(gen.yielded) = gen.cap
           \/ gen.remaining = {}

RECURSIVE Binomial(_, _)
Binomial(n, k) ==
    IF k = 0 THEN 1
    ELSE IF n = 0 THEN 0
    ELSE Binomial(n - 1, k - 1) + Binomial(n - 1, k)

\* Sum over the indexes of (max_i - min_i).
RECURSIVE SumWidths(_, _)
SumWidths(sol, n) ==
    IF n = 0 THEN 0
    ELSE (max_val(sol, n - 1) - min_val(sol, n - 1)) + SumWidths(sol, n - 1)

\* The number of candidates the claim gives, -1 where it gives none.
Total ==
    LET n == Len(solution.vals) IN
    CASE gen.move = "move_binary_flip" -> Binomial(n, gen.step)
      [] gen.move = "move_substitution" /\ gen.step = 1 -> SumWidths(solution, n)
      [] gen.move = "move_swap" /\ gen.step = 1 -> (n * (n - 1)) \div 2
      [] OTHER -> 0 - 1

Finished(cls) == gen.status = "done" /\ gen.cls = cls

\* C11: an enumeration with no cap yields every candidate exactly once:
\* flip-k yields C(n,k) neighbors with pairwise distinct ledgers (for k = 1
\* one neighbor per index, differing from the source at that index only),
\* substitute-1 yields the sum of (max_i - min_i) neighbors, swap-1 yields
\* n(n-1)/2 neighbors; with a cap N the number yielded is min(N, total).
C11_ExhaustiveEnumeration ==
    /\ (Finished("direct") /\ Total >= 0) => BagCardinality(gen.yielded) = Total
    /\ Finished("direct") =>
           /\ \A m \in BagToSet(gen.yielded) : CopiesIn(m, gen.yielded) = 1
           /\ \A pr \in BagToSet(gen.pairs) : CopiesIn(pr, gen.pairs) = 1
    /\ (Finished("direct") /\ gen.move = "move_binary_flip" /\ gen.step = 1) =>
           \A i \in DOMAIN solution.vals :
               \E pr \in BagToSet(gen.pairs) :
                   /\ pr[2] = <<[index |-> i - 1, val_before |-> solution.vals[i],
                                 val_after |-> 1 - solution.vals[i]]>>
                   /\ {j \in DOMAIN solution.vals : pr[1][j] # solution.vals[j]} = {i}
    /\ (Finished("NeighborhoodGenerator") /\ gen.move # "move_distance_continuous"
            /\ Total >= 0) =>
           BagCardinality(gen.yielded) = Min2(gen.cap, Total)

\* Every flip of two bits of a solution of three bits has been yielded.
C11_Witness ==
    /\ Finished("direct")
    /\ gen.move = "move_binary_flip"
    /\ gen.step = 2
    /\ Len(solution.vals) = 3
    /\ BagCardinality(gen.yielded) = 3

ReturnedByMutation ==
    \E move \in {"move_binary_flip", "move_substitution", "move_swap"} : Returned(move)

\* C12 as stated: a neighbor built by copying a solution with its fitness
\* and then changing attributes has no cached fitness left.
C12_MutationInvalidatesFitness ==
    (ReturnedByMutation /\ neighbor[1].vals # solution.vals /\ solution.fitness # None) =>
        neighbor[1].fitness = None

\* C12 amended: changing attributes leaves the cached fitness as it was, so
\* a neighbor built by copying a solution with its fitness and then
\* changing attributes carries the source's fitness.
C12_MutationKeepsFitness ==
    ReturnedByMutation => neighbor[1].fitness = solution.fitness

\* A neighbor that differs from its source carries the source's fitness.
C12_Witness ==
    /\ Returned("move_binary_flip")
    /\ last_op.step >= 1
    /\ neighbor[1].vals # solution.vals
    /\ solution.fitness = Some(VALUE_NOT_RETURNED)
    /\ neighbor[1].fitness = Some(VALUE_NOT_RETURNED)

\* A caller who copies its solution and writes attributes of either object.
InitCopy ==
    /\ \E s \in Solutions, f \in {None, Some(VALUE_NOT_RETURNED)} :
           solution = [s EXCEPT !.fitness = f]
    /\ objective = [fitness_partial |-> FALSE]
    /\ neighbor = None
    /\ modifs = <<>>
    /\ calls = <<>>
    /\ last_op = Op("Modifs", 0, "direct", "")
    /\ last_eval = NoEval
    /\ gen = NoGen
    /\ heap = [buffers |-> <<solution.vals>>,
               objects |-> <<[buf |-> 1, encoding |-> solution.encoding,
                              fitness |-> solution.fitness]>>,
               expected |-> <<solution.vals>>,
               writes |-> 0]
    /\ call = NoCall
    /\ hc = NoRun

NextCopy == CopyCall \/ SetItemCall

SpecCopy == InitCopy /\ [][NextCopy]_vars

\* C13: copy(copy_fitness) gives a distinct solution with the same values
\* and the same encoding, with the source's fitness when copy_fitness and
\* none otherwise; its storage is its own, so a later write to the copy or
\* to the source never changes the other.
C13_CopyIsIndependent ==
    Len(heap.objects) = 2 =>
        /\ heap.objects[2].buf # heap.objects[1].buf
        /\ heap.objects[2].encoding = heap.objects[1].encoding
        /\ heap.objects[2].fitness =
               IF call.args[1] THEN heap.objects[1].fitness ELSE None
        /\ \A obj \in 1..2 : Deref(heap, obj).vals = heap.expected[obj]
        /\ heap.writes = 0 =>
               Deref(heap, 2) = copy(Deref(heap, 1), call.args[1])

\* The copy was written after it was made and the source kept its values.
C13_Witness ==
    /\ Len(heap.objects) = 2
    /\ heap.writes = 1
    /\ Deref(heap, 1).vals = solution.vals
    /\ Deref(heap, 2).vals # solution.vals
    /\ heap.objects[2].fitness # None

\* The solutions of a bounded encoding with attributes that may lie one
\* below the least minimum or one above the greatest maximum.
Unclamped(s) ==
    {[s EXCEPT !.vals = v] : v \in [DOMAIN s.vals -> (0 - 1)..(MaxVal + 1)]}

\* A caller who clamps a solution, bounded or not.
InitBounds ==
    /\ solution \in PermutationSolutions \cup
                    UNION {Unclamped(s) : s \in BinarySolutions \cup DiscreteSolutions
                                                     \cup RealSolutions}
    /\ objective = [fitness_partial |-> FALSE]
    /\ neighbor = None
    /\ modifs = <<>>
    /\ calls = <<>>
    /\ last_op = Op("Modifs", 0, "direct", "")
    /\ last_eval = NoEval
    /\ gen = NoGen
    /\ heap = NoHeap
    /\ call = NoCall
    /\ hc = NoRun

NextBounds == ToBoundsCall

SpecBounds == InitBounds /\ [][NextBounds]_vars

Bounded(s) == s.encoding.name \in {"BinaryEncoding", "DiscreteEncoding", "RealEncoding"}

\* C14: on a solution of a bounded encoding to_bounds sets an attribute
\* above its maximum to the maximum, one below its minimum to the minimum,
\* leaves the others as they are, and a second to_bounds changes nothing.
C14_ToBoundsClamps ==
    (call.fn = "to_bounds" /\ Bounded(solution)) =>
        LET before == call.args[1] IN
        /\ call.result[1] = ""
        /\ \A i \in DOMAIN before.vals :
               LET lo == min_val(before, i - 1)
                   hi == max_val(before, i - 1)
               IN  /\ before.vals[i] > hi => solution.vals[i] = hi
                   /\ before.vals[i] < lo => solution.vals[i] = lo
                   /\ (lo <= before.vals[i] /\ before.vals[i] <= hi) =>
                          solution.vals[i] = before.vals[i]
        /\ call.args[2] = 2 => solution = before

\* A solution with one attribute above its maximum and one below its
\* minimum was clamped, and clamped again.
C14_Witness ==
    /\ call.fn = "to_bounds"
    /\ Bounded(solution)
    /\ call.args[2] = 2
    /\ \E i, j \in DOMAIN solution.vals :
           /\ call.args[3].vals[i] > max_val(solution, i - 1)
           /\ call.args[3].vals[j] < min_val(solution, j - 1)
    /\ solution = call.args[1]

\* C15: on a solution of a Permutation encoding to_bounds ends without an
\* error and leaves every attribute as it is.
C15_ToBoundsNoOpOnPermutation ==
    (call.fn = "to_bounds" /\ solution.encoding.name = "PermutationEncoding") =>
        /\ call.result[1] = ""
        /\ solution.vals = call.args[1].vals

\* A caller who builds boundaries and normalizes arrays with them.
InitBoundaries ==
    /\ solution = Solution(<<0>>, BinaryEncoding(1), None)
    /\ objective = [fitness_partial |-> FALSE]
    /\ neighbor = None
    /\ modifs = <<>>
    /\ calls = <<>>
    /\ last_op = Op("Modifs", 0, "direct", "")
    /\ last_eval = NoEval
    /\ gen = NoGen
    /\ heap = NoHeap
    /\ call = NoCall
    /\ hc = NoRun

NextBoundaries == BoundariesCall \/ NormalizeCall

SpecBoundaries == InitBoundaries /\ [][NextBoundaries]_vars

\* C16: Boundaries(minimums, maximums) raises ValueError when the lengths
\* differ, raises ValueError naming every index i with maximums[i] <
\* minimums[i] when there is one, and otherwise succeeds, equal minimum and
\* maximum included.
C16_BoundariesConstruction ==
    call.fn = "Boundaries" =>
        LET minimums == call.args[1]
            maximums == call.args[2]
            r == call.result[1]
            bad == IF Len(minimums) = Len(maximums)
                   THEN {i \in 0..(Len(minimums) - 1) : maximums[i + 1] < minimums[i + 1]}
                   ELSE {}
        IN  /\ Len(minimums) # Len(maximums) => r.error = "ValueError"
            /\ (Len(minimums) = Len(maximums) /\ bad # {}) =>
                   /\ r.error = "ValueError"
                   /\ Range(r.err_indexes) = bad
                   /\ Len(r.err_indexes) = Cardinality(bad)
            /\ (Len(minimums) = Len(maximums) /\ bad = {}) =>
                   /\ r.error = ""
                   /\ r.bounds[1].minimums = minimums
                   /\ r.bounds[1].maximums = maximums

\* Boundaries with two inverted indexes were refused with both of them
\* listed.
C16_Witness ==
    /\ call.fn = "Boundaries"
    /\ Len(call.args[1]) = Len(call.args[2])
    /\ call.result[1].error = "ValueError"
    /\ call.result[1].err_indexes = <<0, 1>>

\* C17: every constructed Boundaries, of type int or float, has a scale
\* row that is strictly positive at every index, and normalize never
\* divides by zero.
C17_ScaleStrictlyPositive ==
    /\ (call.fn = "Boundaries" /\ call.result[1].error = "") =>
           \A i \in DOMAIN call.result[1].bounds[1].scale :
               Positive(call.result[1].bounds[1].scale[i])
    /\ call.fn = "normalize" =>
           \A i \in DOMAIN call.result[1] : ~call.result[1][i].zero_division

\* A caller who converts normalized steps with a move range.
InitMoveRange ==
    /\ solution = Solution(<<0>>, BinaryEncoding(1), None)
    /\ objective = [fitness_partial |-> FALSE]
    /\ neighbor = None
    /\ modifs = <<>>
    /\ calls = <<>>
    /\ last_op = Op("Modifs", 0, "direct", "")
    /\ last_eval = NoEval
    /\ gen = NoGen
    /\ heap = NoHeap
    /\ call = NoCall
    /\ hc = NoRun

NextMoveRange == ConvertCall \/ ConvertAgainCall

SpecMoveRange == InitMoveRange /\ [][NextMoveRange]_vars

ValidStep(step) == step.type = "float" /\ 0 <= step.num /\ step.num <= StepDen

\* C18: convert(step) of every move range raises TypeError for a step that
\* is not a float (the integers 0 and 1 included), ValueError for a float
\* below 0.0 or above 1.0, and returns a value for every float in [0.0, 1.0];
\* a refused step is never converted.
C18_ConvertChecksStep ==
    call.fn = "convert" =>
        LET step == call.args[2]
            r == call.result[1]
        IN  /\ step.type # "float" => (r.error = "TypeError" /\ r.value = None)
            /\ (step.type = "float" /\ (step.num < 0 \/ step.num > StepDen)) =>
                   (r.error = "ValueError" /\ r.value = None)
            /\ ValidStep(step) => (r.error = "" /\ r.value # None)

\* The integer 1 was refused with a TypeError by a logarithmic discrete
\* range.
C18_Witness ==
    /\ call.fn = "convert"
    /\ call.args[1].kind = "DiscreteLogMoveRange"
    /\ call.args[2] = Step("int", StepDen)
    /\ call.result[1].error = "TypeError"

\* C19: for integers low <= high and a valid step, DiscreteMoveRange and
\* DiscreteLogMoveRange convert to an integer of [low, high], to low at 0.0
\* and to high at 1.0; DiscreteMoveRange returns
\* low + min(floor((high - low + 1) * t), high - low).
C19_DiscreteConvertInRange ==
    (/\ call.fn = "convert"
     /\ call.args[1].kind \in {"DiscreteMoveRange", "DiscreteLogMoveRange"}
     /\ ValidStep(call.args[2])) =>
        LET mr == call.args[1]
            j == call.args[2].num
            v == call.result[1].value[1]
        IN  /\ ~v.nan /\ ~v.log
            /\ v.num \in mr.low..mr.high
            /\ j = 0 => v.num = mr.low
            /\ j = StepDen => v.num = mr.high
            /\ mr.kind = "DiscreteMoveRange" =>
                   \E k \in 0..(mr.high - mr.low + 1) :
                       /\ k * StepDen <= (mr.high - mr.low + 1) * j
                       /\ (mr.high - mr.low + 1) * j < (k + 1) * StepDen
                       /\ v.num = mr.low + Min2(k, mr.high - mr.low)

\* A logarithmic discrete range with a negative low bound returned a value
\* strictly between its bounds.
C19_Witness ==
    /\ call.fn = "convert"
    /\ call.args[1].kind = "DiscreteLogMoveRange"
    /\ call.args[1].low < 0
    /\ ValidStep(call.args[2])
    /\ call.result[1].value[1].num > call.args[1].low
    /\ call.result[1].value[1].num < call.args[1].high

\* C20: for every move range, two valid steps t1 <= t2 convert to values
\* with convert(t1) <= convert(t2).
C20_ConvertMonotone ==
    (/\ call.fn = "convert_again"
     /\ ValidStep(call.args[2])
     /\ ValidStep(call.args[3])
     /\ call.args[2].num <= call.args[3].num) =>
        Leq(call.result[1].value[1], call.result[2].value[1])

\* The converted value v equals the number x.
EqualsNumber(v, x) ==
    /\ ~v.nan
    /\ IF v.log
       THEN \E e \in 0..MaxExp : 10 ^ e = x /\ v.num = e * StepDen
       ELSE v.num = x

\* The converted value v lies between the bounds low and high of its range.
Between(v, low, high) ==
    /\ ~v.nan
    /\ IF v.log
       THEN \E e1, e2 \in 0..MaxExp :
                /\ 10 ^ e1 = low /\ 10 ^ e2 = high
                /\ e1 * StepDen <= v.num /\ v.num <= e2 * StepDen
       ELSE low <= v.num /\ v.num <= high

\* C21: for floats low <= high and a valid step t, ContinuousMoveRange
\* converts t to low + (high - low) * t, and both ContinuousMoveRange and
\* ContinuousLogMoveRange convert 0.0 to low, 1.0 to high and every valid
\* step to a value of [low, high].
C21_ContinuousEndpoints ==
    (/\ call.fn = "convert"
     /\ call.args[1].kind \in {"ContinuousMoveRange", "ContinuousLogMoveRange"}
     /\ ValidStep(call.args[2])) =>
        LET mr == call.args[1]
            j == call.args[2].num
            v == call.result[1].value[1]
        IN  /\ mr.kind = "ContinuousMoveRange" =>
                   (~v.nan /\ ~v.log /\ v.num * StepDen = mr.low * StepDen + (mr.high - mr.low) * j)
            /\ j = 0 => EqualsNumber(v, mr.low)
            /\ j = StepDen => EqualsNumber(v, mr.high)
            /\ Between(v, mr.low, mr.high)

\* A caller of a function wrapped by implemented_for or not_implemented_for.
InitDecorators ==
    /\ \E s \in Solutions, f \in {None, Some(VALUE_NOT_RETURNED)} :
           solution = [s EXCEPT !.fitness = f]
    /\ objective = [fitness_partial |-> FALSE]
    /\ neighbor = None
    /\ modifs = <<>>
    /\ calls = <<>>
    /\ last_op = Op("Modifs", 0, "direct", "")
    /\ last_eval = NoEval
    /\ gen = NoGen
    /\ heap = NoHeap
    /\ call = NoCall
    /\ hc = NoRun

NextDecorators == DecoratedCall

SpecDecorators == InitDecorators /\ [][NextDecorators]_vars

\* The spellings under which a class name matches whatever the case.
Spellings(name) ==
    CASE name = "BinaryEncoding" -> {"BinaryEncoding", "binaryencoding", "BINARYENCODING"}
      [] name = "DiscreteEncoding" -> {"DiscreteEncoding", "discreteencoding", "DISCRETEENCODING"}
      [] name = "RealEncoding" -> {"RealEncoding", "realencoding", "REALENCODING"}
      [] name = "PermutationEncoding" ->
             {"PermutationEncoding", "permutationencoding", "PERMUTATIONENCODING"}

\* C22: a function wrapped by implemented_for(names) runs exactly when the
\* class name of the solution's encoding is one of the names, whatever the
\* case; otherwise it raises NotImplementedError without running, no
\* neighbor is produced and the solution is unchanged.  not_implemented_for
\* runs exactly when implemented_for does not.
C22_ImplementedForGuards ==
    call.fn \in {"implemented_for", "not_implemented_for"} =>
        LET named == call.args[1] \cap Spellings(solution.encoding.name) # {}
            runs == IF call.fn = "implemented_for" THEN named ELSE ~named
            r == call.result[1]
        IN  /\ solution = call.args[2]
            /\ runs => (r.error = "" /\ r.called /\ neighbor # None)
            /\ ~runs => (r.error = "NotImplementedError" /\ ~r.called /\ neighbor = None)

\* implemented_for with the class name in lower case only let a call on a
\* binary solution through.
C22_Witness ==
    /\ call.fn = "implemented_for"
    /\ call.args[1] = {"binaryencoding"}
    /\ solution.encoding.name = "BinaryEncoding"
    /\ call.result[1].called
    /\ neighbor # None

\* More disjoint pairs are asked than the permutation has room for.
TooManyPairs(step) ==
    solution.encoding.name = "PermutationEncoding" /\ 2 * step > Len(solution.vals)

\* C23: swapping more disjoint pairs than a permutation has room for
\* (2k > n) ends in an error for the caller: the move function returns no
\* neighbor, and an enumeration never completes with nothing yielded.
C23_TooManySwapsIsAnError ==
    /\ (last_op.name = "move_swap" /\ TooManyPairs(last_op.step)) =>
           (last_op.error # "" /\ neighbor = None)
    /\ (gen.move = "move_swap" /\ TooManyPairs(gen.step)) => gen.status # "done"

\* A caller who asks encodings for sizes and distances.
InitEncoding ==
    /\ solution = Solution(<<0>>, BinaryEncoding(1), None)
    /\ objective = [fitness_partial |-> FALSE]
    /\ neighbor = None
    /\ modifs = <<>>
    /\ calls = <<>>
    /\ last_op = Op("Modifs", 0, "direct", "")
    /\ last_eval = NoEval
    /\ gen = NoGen
    /\ heap = NoHeap
    /\ call = NoCall
    /\ hc = NoRun

NextEncoding == SpaceSizeCall \/ DistanceCall \/ GenerateSolutionCall

SpecEncoding == InitEncoding /\ [][NextEncoding]_vars

\* The product of (max_i - min_i + 1) over the first n indexes.
RECURSIVE ProductOfWidths(_, _)
ProductOfWidths(b, n) ==
    IF n = 0 THEN 1
    ELSE (b.maximums[n] - b.minimums[n] + 1) * ProductOfWidths(b, n - 1)

\* C24: space_size() raises NotImplementedError on a Real encoding and
\* returns 2^size for Binary, the product of (max_i - min_i + 1) for
\* Discrete and the factorial of the number of items for Permutation;
\* distance() raises NotImplementedError on a Permutation encoding and on
\* any encoding without a norm order.
C24_SpaceSizeAndNoDistance ==
    /\ call.fn = "space_size" =>
           LET e == call.args[1]
               r == call.result[1]
           IN  /\ e.name \in {"RealEncoding", "Encoding"} =>
                      (r.error = "NotImplementedError" /\ r.value = None)
               /\ e.name = "BinaryEncoding" =>
                      (r.error = "" /\ r.value = Some(2 ^ Len(e.boundaries[1].minimums)))
               /\ e.name = "DiscreteEncoding" =>
                      (r.error = "" /\ r.value = Some(ProductOfWidths(e.boundaries[1],
                                                          Len(e.boundaries[1].minimums))))
               /\ e.name = "PermutationEncoding" =>
                      (r.error = "" /\ r.value = Some(factorial(Len(e.items))))
    /\ (call.fn = "distance" /\ call.args[1].name \in {"PermutationEncoding", "Encoding"}) =>
           (call.result[1].error = "NotImplementedError" /\ call.result[1].value = None)

\* A discrete encoding of two attributes with two values each has size 4.
C24_Witness ==
    /\ call.fn = "space_size"
    /\ call.args[1].name = "DiscreteEncoding"
    /\ Len(call.args[1].boundaries[1].minimums) = 2
    /\ call.result[1].value = Some(4)

\* How many times x occurs in the sequence v.
Occurrences(v, x) == Cardinality({i \in DOMAIN v : v[i] = x})

\* C25: a value of generate_random_value() is legal for its encoding: for
\* Binary `size` entries of {0, 1}; for Discrete and Real an entry within
\* [min_i, max_i] at every index; for Permutation the items with the same
\* multiplicities; the solution generated from it has no fitness and refers
\* to that encoding.
C25_GeneratedValueIsLegal ==
    call.fn = "generate_solution" =>
        LET e == call.args[1]
            v == call.result[1]
        IN  /\ e.name = "BinaryEncoding" =>
                   /\ Len(v) = Len(e.boundaries[1].minimums)
                   /\ \A i \in DOMAIN v : v[i] \in {0, 1}
            /\ e.name \in {"DiscreteEncoding", "RealEncoding"} =>
                   /\ Len(v) = Len(e.boundaries[1].minimums)
                   /\ \A i \in DOMAIN v :
                          e.boundaries[1].minimums[i] <= v[i] /\ v[i] <= e.boundaries[1].maximums[i]
            /\ e.name = "PermutationEncoding" =>
                   /\ Len(v) = Len(e.items)
                   /\ \A x \in Range(v) \cup Range(e.items) :
                          Occurrences(v, x) = Occurrences(e.items, x)
            /\ solution.vals = v
            /\ solution.fitness = None
            /\ solution.encoding = e

\* A discrete value of two attributes holds the minimum at one index and
\* the maximum, which is greater, at the other.
C25_Witness ==
    /\ call.fn = "generate_solution"
    /\ call.args[1].name = "DiscreteEncoding"
    /\ Len(call.result[1]) = 2
    /\ call.result[1][1] = call.args[1].boundaries[1].minimums[1]
    /\ call.result[1][2] = call.args[1].boundaries[1].maximums[2]
    /\ call.result[1][1] < call.result[1][2]

\* Both solutions of a distance call refer to the encoding asked.
SameEncoding == call.args[2].encoding.id = call.args[1].id /\ call.args[3].encoding.id = call.args[1].id

\* C26: for two solutions of the encoding asked, distance returns the
\* Hamming distance on a Binary encoding and the norm of order 1 (Discrete)
\* or 2 (Real) of the difference divided index by index by the scale of the
\* boundaries; it raises ValueError when a solution has another encoding.
C26_DistanceIsNorm ==
    (call.fn = "distance" /\ call.args[1].name \in {"BinaryEncoding", "DiscreteEncoding",
                                                      "RealEncoding"}) =>
        LET self == call.args[1]
            a == call.args[2].vals
            b == call.args[3].vals
            r == call.result[1]
        IN  /\ ~SameEncoding => r.error = "ValueError"
            /\ SameEncoding =>
                   /\ r.error = ""
                   /\ r.value # None
                   /\ self.name = "BinaryEncoding" =>
                          Cardinality({i \in DOMAIN a : r.value[1].terms[i].num # 0})
                              = Hamming(a, b)
                   /\ self.name # "BinaryEncoding" =>
                          /\ r.value[1].ord = (IF self.name = "DiscreteEncoding" THEN 1 ELSE 2)
                          /\ \A i \in DOMAIN a :
                                 /\ r.value[1].terms[i].num = a[i] - b[i]
                                 /\ r.value[1].terms[i].den = scale_row(self)[i]

\* A caller who constructs encodings and move ranges.
InitConstruct ==
    /\ solution = Solution(<<0>>, BinaryEncoding(1), None)
    /\ objective = [fitness_partial |-> FALSE]
    /\ neighbor = None
    /\ modifs = <<>>
    /\ calls = <<>>
    /\ last_op = Op("Modifs", 0, "direct", "")
    /\ last_eval = NoEval
    /\ gen = NoGen
    /\ heap = NoHeap
    /\ call = NoCall
    /\ hc = NoRun

NextConstruct == ConstructEncodingCall \/ ConstructMoveRangeCall

SpecConstruct == InitConstruct /\ [][NextConstruct]_vars

\* The numeric kind the bounds of a move range class must have.
KindOf(class) ==
    IF class \in {"ContinuousMoveRange", "ContinuousLogMoveRange"} THEN "float" ELSE "int"

\* C27: BinaryEncoding(size) raises ValueError for every size <= 0;
\* DiscreteEncoding raises TypeError for boundaries that are not integer and
\* RealEncoding for boundaries that are not float; a move range raises
\* ValueError when high < low, TypeError when a bound is of the wrong kind
\* (the order of the bounds is looked at first), and accepts low == high;
\* a rejected construction gives no object.
C27_ConstructionRejectsBadConfiguration ==
    LET r == call.result[1] IN
    /\ call.fn = "BinaryEncoding" =>
           /\ call.args[1] <= 0 => (r.error = "ValueError" /\ r.value = None)
           /\ call.args[1] > 0 => (r.error = "" /\ r.value # None)
    /\ call.fn = "DiscreteEncoding" =>
           /\ call.args[2] # "int" => (r.error = "TypeError" /\ r.value = None)
           /\ call.args[2] = "int" => (r.error = "" /\ r.value # None)
    /\ call.fn = "RealEncoding" =>
           /\ call.args[2] # "float" => (r.error = "TypeError" /\ r.value = None)
           /\ call.args[2] = "float" => (r.error = "" /\ r.value # None)
    /\ call.fn \in {"ContinuousMoveRange", "ContinuousLogMoveRange", "DiscreteMoveRange",
                     "DiscreteLogMoveRange"} =>
           LET low == call.args[1]
               high == call.args[2]
               wrong_kind == low.type # KindOf(call.fn) \/ high.type # KindOf(call.fn)
           IN  /\ high.num < low.num => (r.error = "ValueError" /\ r.value = None)
               /\ (wrong_kind /\ low.num <= high.num) => (r.error = "TypeError" /\ r.value = None)
               /\ (~wrong_kind /\ low.num <= high.num) => (r.error = "" /\ r.value # None)

\* A continuous move range with equal bounds, one of them an int, was
\* refused with a TypeError.
C27_Witness ==
    /\ call.fn = "ContinuousMoveRange"
    /\ call.args[1].num = call.args[2].num
    /\ call.args[1].type = "float"
    /\ call.args[2].type = "int"
    /\ call.result[1].error = "TypeError"

\* A caller of either Objective implementation of the repository.
NextObjectives == EvaluateSolution \/ ProbEvaluateSolution

SpecObjectives == InitObjective /\ [][NextObjectives]_vars

\* C28: a cached fitness of 0 counts as set, with either Objective: an
\* evaluation with a non-empty ledger and a partial evaluator uses the
\* partial evaluator, and an evaluation without a ledger runs nothing and
\* leaves the fitness at 0.
C28_ZeroFitnessIsSet ==
    (last_eval.target = "solution" /\ last_eval.fitness_before = Some(0)) =>
        /\ (Truthy(last_eval.modifs_arg) /\ objective.fitness_partial) =>
               last_eval.evaluator = "fitness_partial"
        /\ last_eval.modifs_arg = None =>
               (last_eval.evaluator = "none" /\ solution.fitness = Some(0))

\* A caller who keeps its solution on the heap and asks moves and
\* neighborhood generators for neighbors of it.
NextFrame == HeapMoveCall \/ HeapGeneratorCall

SpecFrame == InitCopy /\ [][NextFrame]_vars

\* C29: after any sequence of move and generator calls the source solution
\* (object 1) has the values, the encoding and the fitness it had before,
\* and every neighbor returned is an object of its own, on a buffer the
\* source does not view, with the encoding of the source.
C29_SourceIsNeverModified ==
    /\ Deref(heap, 1) = solution
    /\ \A k \in DOMAIN heap.objects :
           k > 1 =>
               /\ \A j \in DOMAIN heap.objects : j # k => heap.objects[j].buf # heap.objects[k].buf
               /\ heap.objects[k].encoding = heap.objects[1].encoding

\* A generator has yielded a neighbor that differs from the source, and the
\* source still has its fitness.
C29_Witness ==
    /\ Len(heap.objects) > 1
    /\ Deref(heap, Len(heap.objects)).vals # solution.vals
    /\ call.fn = "generator"
    /\ solution.fitness # None
    /\ Deref(heap, 1) = solution

\* ----------------------------------------------------------- HillClimbing
\* Problem(objective, encoding, neighborhood=...)
Problem(objective_, encoding, neighborhood) ==
    [objective |-> objective_, encoding |-> encoding, neighborhood |-> neighborhood]

\* NeighborhoodGenerator(move, move_range, max_nb_neighbors)
NeighborhoodGenerator(move, move_range, max_nb_neighbors) ==
    [move |-> move, move_range |-> move_range, max_nb_neighbors |-> max_nb_neighbors]

\* Problem.generate_solution: the solutions it may return.
generate_solution(problem) ==
    {Solution(value, problem.encoding, None) : value \in generate_random_value(problem.encoding)}

\* Problem.evaluate(solution, modifs): the solution afterwards, `value` being
\* what the evaluator the Objective picks returns for it.
evaluate(problem, solution_, modifs_arg, value) ==
    LET r == Objective_call(problem.objective, solution_, modifs_arg)
    IN  IF r.evaluator = "none" THEN solution_
        ELSE [solution_ EXCEPT !.fitness = Some(value)]

\* HillClimbing._get_initial_solution: the solutions it may return.
get_initial_solution(self) ==
    {evaluate(self.problem[1], s, None, value) :
        s \in generate_solution(self.problem[1]), value \in 0..MaxFitness}

\* HillClimbing._stopping_criterion: what it returns and the previous_fitness
\* it leaves.
stopping_criterion(self) ==
    LET unchanged == /\ self.previous_fitness # None
                     /\ self.previous_fitness[1] <= self.solution[1].fitness[1]
    IN  [result |-> unchanged,
         previous_fitness |-> IF unchanged THEN self.previous_fitness
                              ELSE self.solution[1].fitness]

select_step_any(problem, best, c, m, value) ==
    evaluate(problem, c, Some(m), value)

\* One iteration of the loop of _select_solution on the candidate (c, m):
\* the best candidate afterwards (best_fitness is its fitness).
select_step(problem, best, c, m, value) ==
    LET e == evaluate(problem, c, Some(m), value)
    IN  IF e.fitness[1] <= best.fitness[1] THEN e ELSE best

\* list(problem.get_neighbors(solution, step)), through
\* NeighborhoodGenerator.__call__: the move range converts the step, the move
\* builds a (neighbor, modifs) from each of its candidates and yields
\* max_nb_neighbors of them at most, in the order of its shuffle; the
\* hypersphere jump draws afresh each time, so a neighbor may come again.
get_neighbors(problem, solution_, base_step) ==
    LET neighborhood == problem.neighborhood
        step == convert(neighborhood.move_range, base_step)
    IN  IF neighborhood.move = "move_distance_continuous"
        THEN [1..neighborhood.max_nb_neighbors ->
                 {[neighbor |-> n, modifs |-> <<>>] :
                     n \in continuous_neighbors(solution_, step)}]
        ELSE LET candidates == Candidates(neighborhood.move, solution_, step)
                 pool == {[neighbor |-> Build(neighborhood.move, solution_, c).neighbor,
                           modifs |-> Apply(Build(neighborhood.move, solution_, c).calls)] :
                             c \in candidates}
                 length == slice_length(candidates, neighborhood.max_nb_neighbors)
             IN  {cs \in [1..length -> pool] :
                     \A a, b \in 1..length : a # b => cs[a] # cs[b]}

\* HillClimbing._get_candidates: the lists it may return.
get_candidates(self) == get_neighbors(self.problem[1], self.solution[1], self.base_step)

\* The encodings of the problems given to HillClimbing: of every class, the
\* discrete and the real ones one attribute shorter, as each of their
\* attributes has several neighbors.
ClimbEncodings ==
    {BinaryEncoding(n) : n \in 1..MaxClimbLen}
        \cup UNION {{DiscreteEncoding(Boundaries([i \in 1..n |-> 0], [i \in 1..n |-> MaxVal])),
                     RealEncoding(Boundaries([i \in 1..n |-> 0], [i \in 1..n |-> MaxVal]))} :
                        n \in 1..(MaxClimbLen - 1)}
        \cup {PermutationEncoding([i \in 1..n |-> i - 1]) : n \in 1..MaxClimbLen}

\* The move written for an encoding.
MoveOf(encoding) == CHOOSE move \in Moves : EncodingOf(move) = encoding.name

\* The problems: an Objective with or without a partial evaluator, and a
\* NeighborhoodGenerator with the move of the encoding, a move range of that
\* move that starts at 0 and a cap.
Problems ==
    UNION {{Problem([fitness_partial |-> p], e, NeighborhoodGenerator(MoveOf(e), mr, cap)) :
               p \in BOOLEAN, mr \in {r \in MoveRangesFor(MoveOf(e)) : r.low = 0},
               cap \in 1..MaxNeighbors} :
           e \in ClimbEncodings}

\* HillClimbing(problem, base_step), with the base step in the middle of
\* the range: no solution and no previous fitness yet.
HillClimbing_init ==
    /\ hc.pc = "none"
    /\ \E problem \in Problems :
           hc' = [NoRun EXCEPT !.pc = "built", !.problem = Some(problem),
                                  !.base_step = StepDen \div 2]
    /\ UNCHANGED <<solution, objective, neighbor, modifs, calls, last_op, last_eval, gen, heap,
                   call>>

\* run(), at its first next(): self.solution = self._get_initial_solution()
RunStart ==
    /\ hc.pc = "built"
    /\ \E s \in get_initial_solution(hc) :
           hc' = [hc EXCEPT !.pc = "while", !.solution = Some(s), !.initial = s.fitness]
    /\ UNCHANGED <<solution, objective, neighbor, modifs, calls, last_op, last_eval, gen, heap,
                   call>>

\* while not self._stopping_criterion(), on entering the loop and at the
\* next() that follows each yield; the check is noted.
RunWhile ==
    /\ hc.pc \in {"while", "yielded"}
    /\ LET c == stopping_criterion(hc) IN
           hc' = [hc EXCEPT !.pc = IF c.result THEN "done" ELSE "candidates",
                            !.previous_fitness = c.previous_fitness,
                            !.check = Some([previous |-> hc.previous_fitness,
                                            current |-> hc.solution[1].fitness,
                                            result |-> c.result])]
    /\ UNCHANGED <<solution, objective, neighbor, modifs, calls, last_op, last_eval, gen, heap,
                   call>>

\* candidates = self._get_candidates(), and _select_solution up to its loop:
\* best_candidate = self.solution.  hc.candidates are the candidates the
\* loop has yet to visit.
RunGetCandidates ==
    /\ hc.pc = "candidates"
    /\ \E candidates \in get_candidates(hc) :
           hc' = [hc EXCEPT !.pc = "select", !.candidates = candidates, !.best = hc.solution]
    /\ UNCHANGED <<solution, objective, neighbor, modifs, calls, last_op, last_eval, gen, heap,
                   call>>

\* One iteration of the loop of _select_solution: the candidate is
\* evaluated, to whatever the evaluator returns for it, and compared.
RunSelectStep ==
    /\ hc.pc = "select"
    /\ hc.candidates # <<>>
    /\ \E value \in 0..MaxFitness :
           hc' = [hc EXCEPT !.candidates = Tail(@),
                            !.best = Some(select_step(hc.problem[1], hc.best[1],
                                                      hc.candidates[1].neighbor,
                                                      hc.candidates[1].modifs, value))]
    /\ UNCHANGED <<solution, objective, neighbor, modifs, calls, last_op, last_eval, gen, heap,
                   call>>

\* The loop is over: self.solution = best_candidate; yield self.solution
RunYield ==
    /\ hc.pc = "select"
    /\ hc.candidates = <<>>
    /\ hc' = [hc EXCEPT !.pc = "yielded", !.solution = hc.best, !.best = None,
                        !.yielded = Append(@, hc.best[1].fitness)]
    /\ UNCHANGED <<solution, objective, neighbor, modifs, calls, last_op, last_eval, gen, heap,
                   call>>

\* A caller who is about to build a HillClimbing and to iterate its run().
InitHillClimbing ==
    /\ solution = Solution(<<>>, AbstractEncoding, None)
    /\ objective = [fitness_partial |-> FALSE]
    /\ neighbor = None
    /\ modifs = <<>>
    /\ calls = <<>>
    /\ last_op = Op("Modifs", 0, "direct", "")
    /\ last_eval = NoEval
    /\ gen = NoGen
    /\ heap = NoHeap
    /\ call = NoCall
    /\ hc = NoRun

NextHillClimbing ==
    \/ HillClimbing_init \/ RunStart \/ RunWhile
    \/ RunGetCandidates \/ RunSelectStep \/ RunYield

SpecHillClimbing == InitHillClimbing /\ [][NextHillClimbing]_vars

\* The caller builds the metaheuristic and iterates run() to its end: each
\* next() it makes returns, the neighbors of a solution being finitely many.
SpecHillClimbingFair == SpecHillClimbing /\ WF_vars(NextHillClimbing)

\* What holds at every point of a run: the yielded solutions have a fitness,
\* no yielded fitness is above the one before it or above the initial one,
\* the last stopping check said stop exactly when the current fitness was
\* not strictly below the one recorded by the check before, the run ended
\* exactly when a check said stop, and an ended run has yielded.
HillClimbingInvariant ==
    /\ \A i \in DOMAIN hc.yielded : hc.yielded[i] # None
    /\ \A i \in DOMAIN hc.yielded :
           /\ hc.yielded[i][1] <= hc.initial[1]
           /\ i > 1 => hc.yielded[i][1] <= hc.yielded[i - 1][1]
    /\ hc.check # None =>
           /\ hc.check[1].current # None
           /\ hc.check[1].result <=>
                  /\ hc.check[1].previous # None
                  /\ ~(hc.check[1].current[1] < hc.check[1].previous[1])
           /\ hc.pc = "done" <=> hc.check[1].result
    /\ hc.pc = "done" => hc.check # None /\ Len(hc.yielded) >= 1

====
